---- MODULE Spec2Model ----
(***************************************************************************)
(* Staged buffering and delivery pipeline of lightfile6-insights-gateway:  *)
(* the cache directories (cache.Manager), the aggregation cycle and the    *)
(* reconciliation pass (s3.Aggregator), the specimen fast path (s3.Client, *)
(* api.Server), the periodic workers (worker.Manager) and the shutdown     *)
(* drain of main.                                                          *)
(*                                                                         *)
(* File names and file contents are sequences of character codes, so that  *)
(* sorting, formatting and parsing are computed as the code computes them. *)
(***************************************************************************)
EXTENDS Integers, Sequences, FiniteSets, TLC

\* ------------------------------------------------------------------ bounds
MaxAdmit == 2       \* records admitted over the whole run
MaxPutFail == 1     \* object-store puts that fail
MaxBoot == 1        \* times the process is started again (after a crash or a drain)
MaxHour == 1        \* UTC hour boundaries crossed
NumCallers == 4     \* goroutines that call GracefulShutdown.Shutdown

\* ------------------------------------------------------- character codes
NL == 10            \* '\n'
SPACE == 32
PERCENT == 37
PLUS == 43
DOT == 46
ZERO == 48
UPPER_A == 65
UNDERSCORE == 95
GZ == 31            \* first byte of a gzip stream

Kinds == {"usage", "error", "specimen"}
dataTypes == <<"usage", "error">>
Batched == {"usage", "error"}
Users == {<<97>>}                          \* "a"
URIs == {<<97, DOT, 98>>}                  \* "a.b"
Pids == {7}

\* ------------------------------------------------------- strings
RECURSIVE Digits(_)
Digits(n) == IF n < 10 THEN <<ZERO + n>> ELSE Digits(n \div 10) \o <<ZERO + (n % 10)>>

RECURSIVE LexLess(_, _)
LexLess(a, b) ==
    IF a = << >> THEN b # << >>
    ELSE IF b = << >> THEN FALSE
    ELSE IF Head(a) # Head(b) THEN Head(a) < Head(b)
    ELSE LexLess(Tail(a), Tail(b))


IsDigit(c) == c >= ZERO /\ c <= ZERO + 9

\* the positions of ch in s, ascending
Positions(s, ch) == {i \in 1..Len(s) : s[i] = ch}

RECURSIVE SetToSortedSeq(_)
SetToSortedSeq(S) ==
    IF S = {} THEN << >>
    ELSE LET m == CHOOSE x \in S : \A y \in S \ {x} : LexLess(x, y)
         IN  <<m>> \o SetToSortedSeq(S \ {m})

RECURSIVE Reverse(_)
Reverse(s) == IF s = << >> THEN << >> ELSE Reverse(Tail(s)) \o <<Head(s)>>

\* sort.Strings(aggregationFiles): ascending byte-wise order (insertion sort)
RECURSIVE InsertSorted(_, _)
InsertSorted(x, s) ==
    IF s = << >> THEN <<x>>
    ELSE IF LexLess(Head(s), x) THEN <<Head(s)>> \o InsertSorted(x, Tail(s))
    ELSE <<x>> \o s

RECURSIVE SortAscending(_)
SortAscending(s) == IF s = << >> THEN << >> ELSE InsertSorted(Head(s), SortAscending(Tail(s)))

SortStrings_Descending(s) == Reverse(SortAscending(s))

SortStrings(s) == SortAscending(s)

\* ------------------------------------------------------- clock readings
\* A clock reading t counts microseconds since the model's epoch
\* (2024-01-01 00:00:00 UTC); successive readings of time.Now() differ.
StatusNoContent == 204
StatusBadRequest == 400
StatusUnauthorized == 401
StatusInternalServerError == 500
NanosPerMicro == 1000
MicrosPerSecond == 1000000
UnixNano(t) == t * NanosPerMicro

EpochPrefix == <<50, 48, 50, 52, 48, 49, 48, 49, 48, 48, 48, 48>>   \* "202401010000"

Pad(ds, w) == [i \in 1..(w - Len(ds)) |-> ZERO] \o ds

RECURSIVE TrimZeros(_)
TrimZeros(ds) ==
    IF ds # << >> /\ ds[Len(ds)] = ZERO THEN TrimZeros(SubSeq(ds, 1, Len(ds) - 1)) ELSE ds

\* time.Format("20060102150405.999999"): the fraction drops trailing zeros,
\* and is dropped with its dot when it is zero
FormatStamp(t) ==
    LET sec   == t \div MicrosPerSecond
        micro == t % MicrosPerSecond
        frac  == TrimZeros(Pad(Digits(micro), 6))
    IN  EpochPrefix \o Pad(Digits(sec), 2) \o (IF frac = << >> THEN << >> ELSE <<DOT>> \o frac)

\* ------------------------------------------------------- url.QueryEscape
Unreserved(c) ==
    \/ c >= 97 /\ c <= 122
    \/ c >= UPPER_A /\ c <= 90
    \/ IsDigit(c)
    \/ c \in {45, UNDERSCORE, DOT, 126}

HexDigit(n) == IF n < 10 THEN ZERO + n ELSE UPPER_A + (n - 10)

IsHex(c) == IsDigit(c) \/ (c >= UPPER_A /\ c <= 70) \/ (c >= 97 /\ c <= 102)

UnHex(c) == IF IsDigit(c) THEN c - ZERO ELSE IF c >= 97 THEN c - 97 + 10 ELSE c - UPPER_A + 10

RECURSIVE QueryEscape(_)
QueryEscape(s) ==
    IF s = << >> THEN << >>
    ELSE LET c == Head(s)
             e == IF Unreserved(c) THEN <<c>>
                  ELSE IF c = SPACE THEN <<PLUS>>
                  ELSE <<PERCENT, HexDigit(c \div 16), HexDigit(c % 16)>>
         IN  e \o QueryEscape(Tail(s))

\* every '%' is followed by two hex digits
RECURSIVE EscapesValid(_)
EscapesValid(s) ==
    IF s = << >> THEN TRUE
    ELSE IF Head(s) = PERCENT
         THEN Len(s) >= 3 /\ IsHex(s[2]) /\ IsHex(s[3]) /\ EscapesValid(SubSeq(s, 4, Len(s)))
         ELSE EscapesValid(Tail(s))

RECURSIVE UnescapeValid(_)
UnescapeValid(s) ==
    IF s = << >> THEN << >>
    ELSE IF Head(s) = PERCENT
         THEN <<UnHex(s[2]) * 16 + UnHex(s[3])>> \o UnescapeValid(SubSeq(s, 4, Len(s)))
         ELSE IF Head(s) = PLUS THEN <<SPACE>> \o UnescapeValid(Tail(s))
         ELSE <<Head(s)>> \o UnescapeValid(Tail(s))

QueryUnescape(s) ==
    IF EscapesValid(s) THEN [ok |-> TRUE, s |-> UnescapeValid(s)]
    ELSE [ok |-> FALSE, s |-> << >>]

\* ------------------------------------------------------- file names
generateFilename(t, p, user) ==
    Digits(UnixNano(t)) \o <<DOT>> \o Digits(p) \o <<DOT>> \o user

generateSpecimenFilename(t, p, uri) ==
    FormatStamp(t) \o <<DOT>> \o Digits(p) \o <<DOT>> \o QueryEscape(uri)

AggregatePrefix == <<97, 103, 103, 114, 101, 103, 97, 116, 101, UNDERSCORE>>   \* "aggregate_"
GzSuffix == <<DOT, 103, 122>>                                                  \* ".gz"

tempFileName(t) == AggregatePrefix \o Digits(UnixNano(t)) \o GzSuffix

\* time.Parse("20060102150405.999999", s): fourteen digits, then an optional
\* fraction of one or more digits; anything else is an error
AllDigits(s) == \A i \in 1..Len(s) : IsDigit(s[i])

RECURSIVE Pow10(_)
Pow10(n) == IF n = 0 THEN 1 ELSE 10 * Pow10(n - 1)

RECURSIVE DigitsValue(_)
DigitsValue(ds) ==
    IF ds = << >> THEN 0 ELSE DigitsValue(SubSeq(ds, 1, Len(ds) - 1)) * 10 + (ds[Len(ds)] - ZERO)

NoTime == [stamp |-> << >>, nanos |-> 0]

ParseTime(s) ==
    IF Len(s) < 14 \/ ~AllDigits(SubSeq(s, 1, 14)) THEN [ok |-> FALSE, t |-> NoTime]
    ELSE LET rest == SubSeq(s, 15, Len(s))
         IN  IF rest = << >>
             THEN [ok |-> TRUE, t |-> [stamp |-> SubSeq(s, 1, 14), nanos |-> 0]]
             ELSE IF rest[1] = DOT /\ Len(rest) >= 2 /\ Len(rest) <= 10
                     /\ AllDigits(Tail(rest))
             THEN [ok |-> TRUE,
                   t |-> [stamp |-> SubSeq(s, 1, 14),
                          nanos |-> DigitsValue(Tail(rest)) * Pow10(9 - Len(Tail(rest)))]]
             ELSE [ok |-> FALSE, t |-> NoTime]

NoInfo == [ok |-> FALSE, uri |-> << >>, timestamp |-> NoTime]

\* the index of the n-th occurrence of '.' (the loop that collects dots)
NthDot(ps, n) == CHOOSE q \in ps : Cardinality({r \in ps : r < q}) = n - 1

GetSpecimenInfo_NoEmptyCheck(base) ==
    LET ps == Positions(base, DOT)
    IN  IF Cardinality(ps) < 3 THEN NoInfo
        ELSE LET pt == ParseTime(SubSeq(base, 1, NthDot(ps, 2) - 1))
                 un == QueryUnescape(SubSeq(base, NthDot(ps, 3) + 1, Len(base)))
             IN  IF ~pt.ok \/ ~un.ok THEN NoInfo
                 ELSE [ok |-> TRUE, uri |-> un.s, timestamp |-> pt.t]

GetSpecimenInfo(base) ==
    LET ps == Positions(base, DOT)
    IN  IF Cardinality(ps) < 3 THEN NoInfo
        ELSE LET timestampStr == SubSeq(base, 1, NthDot(ps, 2) - 1)
                 encodedURI   == SubSeq(base, NthDot(ps, 3) + 1, Len(base))
                 pt == ParseTime(timestampStr)
                 un == QueryUnescape(encodedURI)
             IN  IF Len(timestampStr) = 0 \/ Len(encodedURI) = 0 THEN NoInfo
                 ELSE IF ~pt.ok THEN NoInfo
                 ELSE IF ~un.ok THEN NoInfo
                 ELSE [ok |-> TRUE, uri |-> un.s, timestamp |-> pt.t]

\* ------------------------------------------------------- the cache directory
\* A path is <<kind, stage, name>>; the file system maps each existing path
\* to the bytes of the file.
INCOMING == "incoming"
AGGREGATION == "aggregation"
UPLOADING == "uploading"
Stages == {INCOMING, AGGREGATION, UPLOADING}

EmptyMap == [x \in {} |-> << >>]

\* os.Create followed by Write: creates or truncates
WriteFile(f, p, data) == [q \in DOMAIN f \cup {p} |-> IF q = p THEN data ELSE f[q]]

Rename_CopyOnly(f, src, dst) == [q \in DOMAIN f \cup {dst} |-> IF q = dst THEN f[src] ELSE f[q]]

\* os.Rename: the source path disappears and the destination appears, at once
Rename(f, src, dst) ==
    [q \in (DOMAIN f \ {src}) \cup {dst} |-> IF q = dst THEN f[src] ELSE f[q]]

\* os.Remove
Remove(f, p) == [q \in DOMAIN f \ {p} |-> f[q]]

\* os.ReadDir returns the entries sorted by file name
getFiles(f, kind, stage) ==
    SetToSortedSeq({p[3] : p \in {q \in DOMAIN f : q[1] = kind /\ q[2] = stage}})

Range(s) == {s[i] : i \in 1..Len(s)}

\* ------------------------------------------------------- aggregate bodies
Payload(t) == IF t % 2 = 0 THEN <<200 + t, NL>> ELSE <<200 + t>>

\* gzip.NewWriter / gzip.NewReader: the compressed stream starts with the gzip
\* magic byte and holds none of the plain bytes; decompression restores them
Gzip(body) == <<GZ>> \o [i \in 1..Len(body) |-> body[i] + 1000]
Gunzip(data) == [i \in 1..(Len(data) - 1) |-> data[i + 1] - 1000]

\* appendFile: the file's bytes, then a newline
appendFile(f, p) == f[p] \o <<NL>>

RECURSIVE aggregateFiles(_, _, _)
aggregateFiles_LastOnly(f, kind, names) ==
    IF names = << >> THEN << >> ELSE appendFile(f, <<kind, AGGREGATION, names[Len(names)]>>)

aggregateFiles(f, kind, names) ==
    IF names = << >> THEN << >>
    ELSE appendFile(f, <<kind, AGGREGATION, Head(names)>>) \o aggregateFiles(f, kind, Tail(names))

\* s contains the bytes of d, contiguously
Contains(s, d) == \E i \in 0..(Len(s) - Len(d)) : SubSeq(s, i + 1, i + Len(d)) = d

\* ------------------------------------------------------- object keys
Hostname == <<104>>                      \* "h"

AggregateKey_NoHour(kind, h) ==
    [bucket |-> kind, owner |-> << >>, period |-> << >>, clean |-> Hostname,
     stamp |-> << >>, nanos |-> 0]

AggregateKey(kind, h) ==
    [bucket |-> kind, owner |-> << >>, period |-> Digits(h), clean |-> Hostname,
     stamp |-> << >>, nanos |-> 0]

\* the suffix from the last '.' of the last path segment
LastSegment(uri) ==
    LET sl == Positions(uri, 47)
    IN  IF sl = {} THEN uri
        ELSE SubSeq(uri, (CHOOSE i \in sl : \A j \in sl : j <= i) + 1, Len(uri))

Ext(name) ==
    LET ds == Positions(name, DOT)
    IN  IF ds = {} THEN << >>
        ELSE SubSeq(name, CHOOSE i \in ds : \A j \in ds : j <= i, Len(name))

ToLower(s) == [i \in 1..Len(s) |-> IF s[i] >= UPPER_A /\ s[i] <= 90 THEN s[i] + 32 ELSE s[i]]

Screenshot == <<115, 99, 114, 101, 101, 110, 115, 104, 111, 116>>   \* "screenshot"
PngExt == <<DOT, 112, 110, 103>>                                     \* ".png"

extractExtension(uri) ==
    LET ext == Ext(LastSegment(uri))
    IN  IF ext = << >> /\ Contains(ToLower(uri), Screenshot) THEN PngExt ELSE ext

cleanURIForFilename(uri) ==
    LET filename == LastSegment(uri)
        ext      == Ext(filename)
        stem     == SubSeq(filename, 1, Len(filename) - Len(ext))
    IN  [i \in 1..Len(stem) |->
            IF stem[i] \in {SPACE, 58, 63, 38, 61, PERCENT, 35} THEN UNDERSCORE ELSE stem[i]]

SpecimenKey(user, uri, timestamp) ==
    [bucket |-> "specimen", owner |-> user, period |-> SubSeq(timestamp.stamp, 1, 8),
     clean |-> cleanURIForFilename(uri) \o extractExtension(uri),
     stamp |-> timestamp.stamp, nanos |-> timestamp.nanos]

PutObject(st, key, body, meta) ==
    [k \in DOMAIN st \cup {key} |-> IF k = key THEN [body |-> body, uri |-> meta] ELSE st[k]]

UNKNOWN_Admitter == <<97>>

UNKNOWN == <<117, 110, 107, 110, 111, 119, 110>>    \* "unknown"

\* ------------------------------------------------------------------ state
VARIABLES
    fs,           \* the cache directory: path -> bytes
    store,        \* the object store: key -> object
    clock,        \* the last reading of time.Now()
    hour,         \* the UTC hour last observed by an aggregate upload
    pid,          \* os.Getpid() of the running process
    mu,           \* cache.Manager.mu: "" when free, else the holder
    mainpc,       \* position of main
    prK,          \* ProcessRemaining: index into dataTypes
    prFiles,      \* ProcessRemaining: the files listed, not yet handled
    cancelled,    \* the worker context is cancelled
    tickerOn,     \* per batched kind: the ticker runs
    tickPending,  \* per batched kind: a tick may wait in the channel of the stopped ticker
    workers,      \* per batched kind: "off", "running" or "exited"
    cy,           \* per executor: the frame of AggregateAndUpload
    tasks,        \* the running UploadSpecimen calls
    putFails,     \* puts that have failed
    boots,        \* times the process was started again
    admitted,     \* history: the records whose Admit returned success
    deleted,      \* history: the paths removed by RemoveFile
    putOK,        \* history: the bodies whose put returned success
    drainPutFailed,  \* history: a put failed since the drain began
    failedSpecimens, \* history: specimen files whose put failed
    prReuploaded,    \* history: artifacts re-uploaded by this pass
    prPasses,        \* history: reconciliation passes completed by this process
    call,            \* a single call of a file-name or RemoveFile function: arguments and result
    gs               \* the GracefulShutdown object and the goroutines calling Shutdown

vars == <<fs, store, clock, hour, pid, mu, mainpc, prK, prFiles, cancelled, tickerOn,
          tickPending, workers, cy, tasks, putFails, boots, admitted,
          deleted, putOK, drainPutFailed, failedSpecimens, prReuploaded, prPasses,
          call, gs>>

Executors == {"usage", "error", "main"}
MAIN == "main"
KindOf(e) == IF e = MAIN THEN dataTypes[prK] ELSE e

IdleFrame == [pc |-> "idle", files |-> << >>, aggregationFiles |-> << >>,
              tempFile |-> << >>]

\* the state of a freshly started process; the directories and the object
\* store are what the previous process left
Boot ==
    /\ mu' = ""
    /\ mainpc' = "start"
    /\ prK' = 1
    /\ prFiles' = << >>
    /\ cancelled' = FALSE
    /\ tickerOn' = [k \in Batched |-> FALSE]
    /\ tickPending' = [k \in Batched |-> FALSE]
    /\ workers' = [k \in Batched |-> "off"]
    /\ cy' = [e \in Executors |-> IdleFrame]
    /\ tasks' = {}
    /\ drainPutFailed' = FALSE
    /\ prReuploaded' = {}
    /\ prPasses' = 0

\* no call has been made
NoCall == [op |-> "none", t |-> 0, pid |-> 0, uri |-> << >>, name |-> << >>,
           info |-> NoInfo, path |-> << >>, before |-> EmptyMap, err |-> FALSE,
           kind |-> "", user |-> << >>, data |-> << >>, status |-> 0]

\* NewGracefulShutdown, and the goroutines that will call Shutdown
Callers == 1..NumCallers
NewGracefulShutdown ==
    [mu |-> 0, done |-> FALSE, closed |-> 0, cleanups |-> 0, skipped |-> {},
     pc |-> [c \in Callers |-> "call"]]

\* the cache directory, the object store and the process at its first start
ProgramInit ==
    /\ fs = EmptyMap
    /\ store = EmptyMap
    /\ clock = 0
    /\ hour = 0
    /\ pid \in Pids
    /\ mu = ""
    /\ mainpc = "start"
    /\ prK = 1
    /\ prFiles = << >>
    /\ cancelled = FALSE
    /\ tickerOn = [k \in Batched |-> FALSE]
    /\ tickPending = [k \in Batched |-> FALSE]
    /\ workers = [k \in Batched |-> "off"]
    /\ cy = [e \in Executors |-> IdleFrame]
    /\ tasks = {}
    /\ putFails = 0
    /\ boots = 0
    /\ admitted = {}
    /\ deleted = {}
    /\ putOK = {}
    /\ drainPutFailed = FALSE
    /\ failedSpecimens = {}
    /\ prReuploaded = {}
    /\ prPasses = 0

Init ==
    /\ ProgramInit
    /\ call = NoCall
    /\ gs = NewGracefulShutdown

\* time.Now().UTC() at a put: the hour last observed, or a later one
NowHours == {h \in hour..MaxHour : h <= hour + 1}

Draining == mainpc \notin {"start", "serving"}

Path(kind, stage, name) == <<kind, stage, name>>

\* m.mu.Lock() / m.mu.RLock() by executor e: nobody else holds the lock
StageLockFree_NoLock(e) == TRUE

StageLockFree(e) == mu \in {"", e}

\* ------------------------------------------------------------------ admit
\* handleUsage / handleError: SaveUsage, SaveError through saveFile
SaveRecord(kind, user) ==
    /\ mainpc = "serving"
    /\ mu = ""
    /\ Cardinality(admitted) < MaxAdmit
    /\ LET t    == clock + 1
           name == generateFilename(t, pid, user)
       IN  /\ clock' = t
           /\ fs' = WriteFile(fs, Path(kind, INCOMING, name), Payload(t))
           /\ admitted' = admitted \cup {[kind |-> kind, name |-> name, data |-> Payload(t)]}
    /\ UNCHANGED <<store, hour, pid, mu, mainpc, prK, prFiles, cancelled, tickerOn,
                   tickPending, workers, cy, tasks, putFails, boots, deleted,
                   putOK, drainPutFailed, failedSpecimens, prReuploaded, prPasses>>
    /\ UNCHANGED <<call, gs>>

\* handleSpecimen: SaveSpecimen, then go s.uploadSpecimen(user, uri)
HandleSpecimen(user, uri) ==
    /\ mainpc = "serving"
    /\ mu = ""
    /\ Cardinality(admitted) < MaxAdmit
    /\ LET t    == clock + 1
           name == generateSpecimenFilename(t, pid, uri)
       IN  /\ clock' = t
           /\ fs' = WriteFile(fs, Path("specimen", INCOMING, name), Payload(t))
           /\ admitted' = admitted \cup {[kind |-> "specimen", name |-> name, data |-> Payload(t)]}
           /\ tasks' = tasks \cup {[id |-> t, pc |-> "find", user |-> user, uri |-> uri,
                                    target |-> << >>]}
    /\ UNCHANGED <<store, hour, pid, mu, mainpc, prK, prFiles, cancelled, tickerOn,
                   tickPending, workers, cy, putFails, boots, deleted,
                   putOK, drainPutFailed, failedSpecimens, prReuploaded, prPasses>>
    /\ UNCHANGED <<call, gs>>

\* ------------------------------------------------------------------ workers
\* workerManager.Start and server.Start
Start ==
    /\ mainpc = "start"
    /\ mainpc' = "serving"
    /\ workers' = [k \in Batched |-> "running"]
    /\ tickerOn' = [k \in Batched |-> TRUE]
    /\ UNCHANGED <<fs, store, clock, hour, pid, mu, prK, prFiles, cancelled, tickPending,
                   cy, tasks, putFails, boots, admitted, deleted, putOK,
                   drainPutFailed, failedSpecimens, prReuploaded, prPasses>>
    /\ UNCHANGED <<call, gs>>

\* AggregateAndUpload returns; the caller only logs the error
Returned(e) == [IdleFrame EXCEPT !.pc = IF e = MAIN THEN "done" ELSE "idle"]

\* AggregateAndUpload is entered: getFilesToAggregate lists Incoming, and an
\* empty listing ends the cycle at once
StartCycle_NoEarlyReturn(e, kind) ==
    LET files == getFiles(fs, kind, INCOMING)
    IN  IF Len(files) = 0 THEN [IdleFrame EXCEPT !.pc = "temp"]
        ELSE [IdleFrame EXCEPT !.pc = "move", !.files = files]

StartCycle_FirstOnly(e, kind) ==
    LET files == getFiles(fs, kind, INCOMING)
    IN  IF Len(files) = 0 THEN Returned(e)
        ELSE [IdleFrame EXCEPT !.pc = "move", !.files = <<Head(files)>>]

StartCycle(e, kind) ==
    LET files == getFiles(fs, kind, INCOMING)
    IN  IF Len(files) = 0 THEN Returned(e) ELSE [IdleFrame EXCEPT !.pc = "move", !.files = files]

\* runAggregationWorker, case <-ticker: a running ticker may have delivered a
\* tick at any moment; a stopped one only the tick left in its channel
WorkerTick(k) ==
    /\ workers[k] = "running"
    /\ cy[k].pc = "idle"
    /\ tickerOn[k] \/ tickPending[k]
    /\ StageLockFree(k)
    /\ tickPending' = [tickPending EXCEPT ![k] = FALSE]
    /\ cy' = [cy EXCEPT ![k] = StartCycle(k, k)]
    /\ UNCHANGED <<fs, store, clock, hour, pid, mu, mainpc, prK, prFiles, cancelled,
                   tickerOn, workers, tasks, putFails, boots, admitted,
                   deleted, putOK, drainPutFailed, failedSpecimens, prReuploaded, prPasses>>
    /\ UNCHANGED <<call, gs>>

\* the worker is in its select, not inside AggregateAndUpload
BetweenCycles_Always(k) == TRUE

BetweenCycles(k) == cy[k].pc = "idle"

\* runAggregationWorker, case <-ctx.Done()
WorkerExit(k) ==
    /\ workers[k] = "running"
    /\ BetweenCycles(k)
    /\ cancelled
    /\ workers' = [workers EXCEPT ![k] = "exited"]
    /\ UNCHANGED <<fs, store, clock, hour, pid, mu, mainpc, prK, prFiles, cancelled,
                   tickerOn, tickPending, cy, tasks, putFails, boots, admitted,
                   deleted, putOK, drainPutFailed, failedSpecimens, prReuploaded, prPasses>>
    /\ UNCHANGED <<call, gs>>

\* ------------------------------------------------------------------ the cycle
\* defer os.Remove(tempFile): the path in the aggregation directory
DeferredRemove_Uploading(f, kind, tempFile) == Remove(f, Path(kind, UPLOADING, tempFile))

DeferredRemove(f, kind, tempFile) == Remove(f, Path(kind, AGGREGATION, tempFile))

\* MoveToAggregation: one rename of the loop; the lock is held over the loop
CycleMove(e) ==
    /\ cy[e].pc = "move"
    /\ StageLockFree(e)
    /\ LET k    == KindOf(e)
           file == Head(cy[e].files)
           rest == Tail(cy[e].files)
       IN  IF Path(k, INCOMING, file) \in DOMAIN fs
           THEN /\ fs' = Rename(fs, Path(k, INCOMING, file), Path(k, AGGREGATION, file))
                /\ mu' = IF rest = << >> THEN "" ELSE e
                /\ cy' = [cy EXCEPT ![e] = [@ EXCEPT !.files = rest,
                                               !.pc = IF rest = << >> THEN "temp" ELSE "move"]]
           ELSE /\ fs' = fs
                /\ mu' = ""
                /\ cy' = [cy EXCEPT ![e] = Returned(e)]
    /\ UNCHANGED <<store, clock, hour, pid, mainpc, prK, prFiles, cancelled, tickerOn,
                   tickPending, workers, tasks, putFails, boots, admitted,
                   deleted, putOK, drainPutFailed, failedSpecimens, prReuploaded, prPasses>>
    /\ UNCHANGED <<call, gs>>

\* GetAggregationFiles, sort.Strings, createTempFile
CycleCreateTemp(e) ==
    /\ cy[e].pc = "temp"
    /\ StageLockFree(e)
    /\ LET t == clock + 1
       IN  /\ clock' = t
           /\ fs' = WriteFile(fs, Path(KindOf(e), AGGREGATION, tempFileName(t)), << >>)
           /\ cy' = [cy EXCEPT ![e] = [@ EXCEPT !.pc = "aggregate", !.tempFile = tempFileName(t),
                         !.aggregationFiles = SortStrings(getFiles(fs, KindOf(e), AGGREGATION))]]
    /\ UNCHANGED <<store, hour, pid, mu, mainpc, prK, prFiles, cancelled, tickerOn,
                   tickPending, workers, tasks, putFails, boots, admitted,
                   deleted, putOK, drainPutFailed, failedSpecimens, prReuploaded, prPasses>>
    /\ UNCHANGED <<call, gs>>

\* the bytes of a file that os.Open or io.Copy fails on
Unreadable == <<-1>>

\* appendFile: os.Open and io.Copy succeed
Readable(f, p) == p \in DOMAIN f /\ f[p] # Unreadable

\* aggregateFiles; a file that cannot be opened aborts the cycle
CycleAggregate(e) ==
    /\ cy[e].pc = "aggregate"
    /\ LET k == KindOf(e)
       IN  IF \A n \in Range(cy[e].aggregationFiles) : Readable(fs, Path(k, AGGREGATION, n))
           THEN /\ fs' = WriteFile(fs, Path(k, AGGREGATION, cy[e].tempFile),
                                   Gzip(aggregateFiles(fs, k, cy[e].aggregationFiles)))
                /\ cy' = [cy EXCEPT ![e] = [@ EXCEPT !.pc = "toupl"]]
           ELSE /\ fs' = DeferredRemove(fs, k, cy[e].tempFile)
                /\ cy' = [cy EXCEPT ![e] = Returned(e)]
    /\ UNCHANGED <<store, clock, hour, pid, mu, mainpc, prK, prFiles, cancelled, tickerOn,
                   tickPending, workers, tasks, putFails, boots, admitted,
                   deleted, putOK, drainPutFailed, failedSpecimens, prReuploaded, prPasses>>
    /\ UNCHANGED <<call, gs>>

\* MoveToUploading(tempFile, dataType)
CycleMoveToUploading(e) ==
    /\ cy[e].pc = "toupl"
    /\ StageLockFree(e)
    /\ LET k == KindOf(e)
       IN  IF Path(k, AGGREGATION, cy[e].tempFile) \in DOMAIN fs
           THEN /\ fs' = Rename(fs, Path(k, AGGREGATION, cy[e].tempFile),
                                Path(k, UPLOADING, cy[e].tempFile))
                /\ cy' = [cy EXCEPT ![e] = [@ EXCEPT !.pc = "upload"]]
           ELSE /\ fs' = DeferredRemove(fs, k, cy[e].tempFile)
                /\ cy' = [cy EXCEPT ![e] = Returned(e)]
    /\ UNCHANGED <<store, clock, hour, pid, mu, mainpc, prK, prFiles, cancelled, tickerOn,
                   tickPending, workers, tasks, putFails, boots, admitted,
                   deleted, putOK, drainPutFailed, failedSpecimens, prReuploaded, prPasses>>
    /\ UNCHANGED <<call, gs>>

\* what follows the put of UploadAggregatedFile in the cycle

CycleAfterPut(ok) == IF ok THEN "rmart" ELSE "return"

\* UploadAggregatedFile(uploadingPath, dataType): the put succeeds
CycleUploadOK(e) ==
    /\ cy[e].pc = "upload"
    /\ LET k    == KindOf(e)
           data == fs[Path(k, UPLOADING, cy[e].tempFile)]
       IN  \E h \in NowHours :
             /\ hour' = h
             /\ store' = PutObject(store, AggregateKey(k, h), data, << >>)
             /\ putOK' = putOK \cup {[kind |-> k, body |-> data]}
             /\ cy' = [cy EXCEPT ![e] = [@ EXCEPT !.pc = CycleAfterPut(TRUE)]]
    /\ UNCHANGED <<fs, clock, pid, mu, mainpc, prK, prFiles, cancelled, tickerOn,
                   tickPending, workers, tasks, putFails, boots, admitted,
                   deleted, drainPutFailed, failedSpecimens, prReuploaded, prPasses>>
    /\ UNCHANGED <<call, gs>>

\* UploadAggregatedFile(uploadingPath, dataType): the put fails
CycleUploadFail(e) ==
    /\ cy[e].pc = "upload"
    /\ putFails < MaxPutFail
    /\ putFails' = putFails + 1
    /\ drainPutFailed' = (drainPutFailed \/ Draining)
    /\ IF CycleAfterPut(FALSE) = "return"
       THEN /\ fs' = DeferredRemove(fs, KindOf(e), cy[e].tempFile)
            /\ cy' = [cy EXCEPT ![e] = Returned(e)]
       ELSE /\ fs' = fs
            /\ cy' = [cy EXCEPT ![e] = [@ EXCEPT !.pc = CycleAfterPut(FALSE)]]
    /\ UNCHANGED <<store, clock, hour, pid, mu, mainpc, prK, prFiles, cancelled, tickerOn,
                   tickPending, workers, tasks, boots, admitted, deleted,
                   putOK, failedSpecimens, prReuploaded, prPasses>>
    /\ UNCHANGED <<call, gs>>

\* RemoveFile(uploadingPath)
CycleRemoveArtifact(e) ==
    /\ cy[e].pc = "rmart"
    /\ LET p == Path(KindOf(e), UPLOADING, cy[e].tempFile)
       IN  /\ fs' = Remove(fs, p)
           /\ deleted' = deleted \cup ({p} \cap DOMAIN fs)
    /\ cy' = [cy EXCEPT ![e] = [@ EXCEPT !.pc = "rmsrc"]]
    /\ UNCHANGED <<store, clock, hour, pid, mu, mainpc, prK, prFiles, cancelled, tickerOn,
                   tickPending, workers, tasks, putFails, boots, admitted,
                   putOK, drainPutFailed, failedSpecimens, prReuploaded, prPasses>>
    /\ UNCHANGED <<call, gs>>

\* the loop over aggregationFiles: RemoveFile(file); after the last, return nil
CycleRemoveSource(e) ==
    /\ cy[e].pc = "rmsrc"
    /\ LET k    == KindOf(e)
           rest == Tail(cy[e].aggregationFiles)
       IN  IF cy[e].aggregationFiles = << >>
           THEN /\ fs' = DeferredRemove(fs, k, cy[e].tempFile)
                /\ deleted' = deleted
                /\ cy' = [cy EXCEPT ![e] = Returned(e)]
           ELSE LET p == Path(k, AGGREGATION, Head(cy[e].aggregationFiles))
                IN  /\ fs' = Remove(fs, p)
                    /\ deleted' = deleted \cup ({p} \cap DOMAIN fs)
                    /\ cy' = [cy EXCEPT ![e] = [@ EXCEPT !.aggregationFiles = rest]]
    /\ UNCHANGED <<store, clock, hour, pid, mu, mainpc, prK, prFiles, cancelled, tickerOn,
                   tickPending, workers, tasks, putFails, boots, admitted,
                   putOK, drainPutFailed, failedSpecimens, prReuploaded, prPasses>>
    /\ UNCHANGED <<call, gs>>

\* ------------------------------------------------------------------ UploadSpecimen
\* the first listed file whose decoded URI is uri; << >> when there is none
RECURSIVE FindSpecimen(_, _)
FindSpecimen_StopAtUndecodable(files, uri) ==
    IF files = << >> THEN << >>
    ELSE LET info == GetSpecimenInfo(Head(files))
         IN  IF ~info.ok THEN << >>
             ELSE IF info.uri = uri THEN Head(files) ELSE FindSpecimen(Tail(files), uri)

FindSpecimen(files, uri) ==
    IF files = << >> THEN << >>
    ELSE LET info == GetSpecimenInfo(Head(files))
         IN  IF info.ok /\ info.uri = uri THEN Head(files) ELSE FindSpecimen(Tail(files), uri)

\* GetSpecimenFiles and the search loop
SpecimenFind(x) ==
    /\ x \in tasks
    /\ x.pc = "find"
    /\ mainpc # "finished"
    /\ mu = ""
    /\ LET targetFile == FindSpecimen(getFiles(fs, "specimen", INCOMING), x.uri)
       IN  tasks' = IF targetFile = << >> THEN tasks \ {x}
                    ELSE (tasks \ {x}) \cup {[x EXCEPT !.pc = "move", !.target = targetFile]}
    /\ UNCHANGED <<fs, store, clock, hour, pid, mu, mainpc, prK, prFiles, cancelled,
                   tickerOn, tickPending, workers, cy, putFails, boots,
                   admitted, deleted, putOK, drainPutFailed, failedSpecimens,
                   prReuploaded, prPasses>>
    /\ UNCHANGED <<call, gs>>

\* MoveToUploading(targetFile, "specimen")
SpecimenMove(x) ==
    /\ x \in tasks
    /\ x.pc = "move"
    /\ mainpc # "finished"
    /\ mu = ""
    /\ IF Path("specimen", INCOMING, x.target) \in DOMAIN fs
       THEN /\ fs' = Rename(fs, Path("specimen", INCOMING, x.target),
                            Path("specimen", UPLOADING, x.target))
            /\ tasks' = (tasks \ {x}) \cup {[x EXCEPT !.pc = "put"]}
       ELSE /\ fs' = fs
            /\ tasks' = tasks \ {x}
    /\ UNCHANGED <<store, clock, hour, pid, mu, mainpc, prK, prFiles, cancelled, tickerOn,
                   tickPending, workers, cy, putFails, boots, admitted,
                   deleted, putOK, drainPutFailed, failedSpecimens, prReuploaded, prPasses>>
    /\ UNCHANGED <<call, gs>>

\* uploadSpecimenFile: the put succeeds
SpecimenPutOK(x) ==
    /\ x \in tasks
    /\ x.pc = "put"
    /\ mainpc # "finished"
    /\ LET data == fs[Path("specimen", UPLOADING, x.target)]
           info == GetSpecimenInfo(x.target)
       IN  /\ store' = PutObject(store, SpecimenKey(x.user, x.uri, info.timestamp), data, x.uri)
           /\ putOK' = putOK \cup {[kind |-> "specimen", body |-> data]}
    /\ tasks' = (tasks \ {x}) \cup {[x EXCEPT !.pc = "remove"]}
    /\ UNCHANGED <<fs, clock, hour, pid, mu, mainpc, prK, prFiles, cancelled, tickerOn,
                   tickPending, workers, cy, putFails, boots, admitted,
                   deleted, drainPutFailed, failedSpecimens, prReuploaded, prPasses>>
    /\ UNCHANGED <<call, gs>>

\* what UploadSpecimen does with the file when the put has failed: nothing
SpecimenFailedPut_MoveBack(f, target) ==
    Rename(f, <<"specimen", UPLOADING, target>>, <<"specimen", INCOMING, target>>)

SpecimenFailedPut(f, target) == f

\* uploadSpecimenFile: the put fails; UploadSpecimen returns the error
SpecimenPutFail(x) ==
    /\ x \in tasks
    /\ x.pc = "put"
    /\ mainpc # "finished"
    /\ putFails < MaxPutFail
    /\ putFails' = putFails + 1
    /\ drainPutFailed' = (drainPutFailed \/ Draining)
    /\ failedSpecimens' = failedSpecimens \cup {x.target}
    /\ fs' = SpecimenFailedPut(fs, x.target)
    /\ tasks' = tasks \ {x}
    /\ UNCHANGED <<store, clock, hour, pid, mu, mainpc, prK, prFiles, cancelled,
                   tickerOn, tickPending, workers, cy, boots, admitted,
                   deleted, putOK, prReuploaded, prPasses>>
    /\ UNCHANGED <<call, gs>>

\* RemoveFile(uploadingPath)
SpecimenRemove(x) ==
    /\ x \in tasks
    /\ x.pc = "remove"
    /\ mainpc # "finished"
    /\ LET p == Path("specimen", UPLOADING, x.target)
       IN  /\ fs' = Remove(fs, p)
           /\ deleted' = deleted \cup ({p} \cap DOMAIN fs)
    /\ tasks' = tasks \ {x}
    /\ UNCHANGED <<store, clock, hour, pid, mu, mainpc, prK, prFiles, cancelled, tickerOn,
                   tickPending, workers, cy, putFails, boots, admitted,
                   putOK, drainPutFailed, failedSpecimens, prReuploaded, prPasses>>
    /\ UNCHANGED <<call, gs>>

\* ------------------------------------------------------------------ the drain
\* the signal arrives; graceful.Shutdown runs the cleanup; server.Shutdown returns
BeginShutdown ==
    /\ mainpc = "serving"
    /\ mainpc' = "sd_cancel"
    /\ UNCHANGED <<fs, store, clock, hour, pid, mu, prK, prFiles, cancelled, tickerOn,
                   tickPending, workers, cy, tasks, putFails, boots, admitted,
                   deleted, putOK, drainPutFailed, failedSpecimens, prReuploaded, prPasses>>
    /\ UNCHANGED <<call, gs>>

\* cancel()
Cancel ==
    /\ mainpc = "sd_cancel"
    /\ cancelled' = TRUE
    /\ mainpc' = "sd_wait"
    /\ UNCHANGED <<fs, store, clock, hour, pid, mu, prK, prFiles, tickerOn, tickPending,
                   workers, cy, tasks, putFails, boots, admitted, deleted,
                   putOK, drainPutFailed, failedSpecimens, prReuploaded, prPasses>>
    /\ UNCHANGED <<call, gs>>

\* Wait: both tickers are stopped; a tick delivered before the stop and not
\* yet received stays in the channel (the worker may find one or none)
StopTickers ==
    /\ mainpc = "sd_wait"
    /\ tickerOn' = [k \in Batched |-> FALSE]
    /\ tickPending' = [k \in Batched |-> TRUE]
    /\ mainpc' = "sd_join"
    /\ UNCHANGED <<fs, store, clock, hour, pid, mu, prK, prFiles, cancelled,
                   workers, cy, tasks, putFails, boots, admitted, deleted,
                   putOK, drainPutFailed, failedSpecimens, prReuploaded, prPasses>>
    /\ UNCHANGED <<call, gs>>

\* the WaitGroup counter is zero: every worker has called wg.Done
WorkersDone_Ignored == TRUE

WorkersDone == \A k \in Batched : workers[k] = "exited"

\* Wait: m.wg.Wait() returns once both workers have exited
Join ==
    /\ mainpc = "sd_join"
    /\ WorkersDone
    /\ mainpc' = "pr_list"
    /\ prK' = 1
    /\ UNCHANGED <<fs, store, clock, hour, pid, mu, prFiles, cancelled, tickerOn,
                   tickPending, workers, cy, tasks, putFails, boots, admitted,
                   deleted, putOK, drainPutFailed, failedSpecimens, prReuploaded, prPasses>>
    /\ UNCHANGED <<call, gs>>

\* ------------------------------------------------------------------ ProcessRemaining
\* where the pass goes with the uploading files still to handle
PRAfterListing_SkipUploading(files) == "pr_cycle"

PRAfterListing(files) == IF files = << >> THEN "pr_cycle" ELSE "pr_upload"

\* what follows the put of a listed uploading file
PRAfterPut_Abort(ok) == IF ok THEN "pr_remove" ELSE "finished"

PRAfterPut_IgnoreError(ok) == "pr_remove"

PRAfterPut(ok) == IF ok THEN "pr_remove" ELSE "pr_continue"

\* GetUploadingFiles(dataType)
PRListUploading ==
    /\ mainpc = "pr_list"
    /\ mu = ""
    /\ LET uploadingFiles == getFiles(fs, dataTypes[prK], UPLOADING)
       IN  /\ prFiles' = uploadingFiles
           /\ mainpc' = PRAfterListing(uploadingFiles)
    /\ UNCHANGED <<fs, store, clock, hour, pid, mu, prK, cancelled, tickerOn, tickPending,
                   workers, cy, tasks, putFails, boots, admitted, deleted,
                   putOK, drainPutFailed, failedSpecimens, prReuploaded, prPasses>>
    /\ UNCHANGED <<call, gs>>

\* UploadAggregatedFile(file, dataType): the put succeeds
PRUploadOK ==
    /\ mainpc = "pr_upload"
    /\ LET k == dataTypes[prK]
           p == Path(k, UPLOADING, Head(prFiles))
       IN  \E h \in NowHours :
             /\ p \in DOMAIN fs
             /\ hour' = h
             /\ store' = PutObject(store, AggregateKey(k, h), fs[p], << >>)
             /\ putOK' = putOK \cup {[kind |-> k, body |-> fs[p]]}
             /\ prReuploaded' = prReuploaded \cup {[path |-> p, body |-> fs[p], ok |-> TRUE]}
    /\ mainpc' = PRAfterPut(TRUE)
    /\ UNCHANGED <<fs, clock, pid, mu, prK, prFiles, cancelled, tickerOn,
                   tickPending, workers, cy, tasks, putFails, boots, admitted,
                   deleted, drainPutFailed, failedSpecimens, prPasses>>
    /\ UNCHANGED <<call, gs>>

\* UploadAggregatedFile(file, dataType): the put fails; the loop continues
PRUploadFail ==
    /\ mainpc = "pr_upload"
    /\ putFails < MaxPutFail
    /\ LET p == Path(dataTypes[prK], UPLOADING, Head(prFiles))
       IN  /\ p \in DOMAIN fs
           /\ prReuploaded' = prReuploaded \cup {[path |-> p, body |-> fs[p], ok |-> FALSE]}
    /\ putFails' = putFails + 1
    /\ drainPutFailed' = TRUE
    /\ IF PRAfterPut(FALSE) = "pr_continue"
       THEN /\ prFiles' = Tail(prFiles)
            /\ mainpc' = PRAfterListing(Tail(prFiles))
       ELSE /\ prFiles' = prFiles
            /\ mainpc' = PRAfterPut(FALSE)
    /\ UNCHANGED <<fs, store, clock, hour, pid, mu, prK, cancelled, tickerOn, tickPending,
                   workers, cy, tasks, boots, admitted, deleted, putOK,
                   failedSpecimens, prPasses>>
    /\ UNCHANGED <<call, gs>>

\* RemoveFile(file) after the successful put
PRRemove ==
    /\ mainpc = "pr_remove"
    /\ LET p == Path(dataTypes[prK], UPLOADING, Head(prFiles))
       IN  /\ fs' = Remove(fs, p)
           /\ deleted' = deleted \cup ({p} \cap DOMAIN fs)
    /\ prFiles' = Tail(prFiles)
    /\ mainpc' = PRAfterListing(Tail(prFiles))
    /\ UNCHANGED <<store, clock, hour, pid, mu, prK, cancelled, tickerOn, tickPending,
                   workers, cy, tasks, putFails, boots, admitted, putOK,
                   drainPutFailed, failedSpecimens, prReuploaded, prPasses>>
    /\ UNCHANGED <<call, gs>>

\* a.AggregateAndUpload(dataType) is called
PRCallCycle ==
    /\ mainpc = "pr_cycle"
    /\ cy[MAIN].pc = "idle"
    /\ mu = ""
    /\ cy' = [cy EXCEPT ![MAIN] = StartCycle(MAIN, dataTypes[prK])]
    /\ UNCHANGED <<fs, store, clock, hour, pid, mu, mainpc, prK, prFiles, cancelled,
                   tickerOn, tickPending, workers, tasks, putFails, boots,
                   admitted, deleted, putOK, drainPutFailed, failedSpecimens,
                   prReuploaded, prPasses>>
    /\ UNCHANGED <<call, gs>>

\* a.AggregateAndUpload(dataType) has returned; its error is only logged
PRCycleReturned ==
    /\ mainpc = "pr_cycle"
    /\ cy[MAIN].pc = "done"
    /\ cy' = [cy EXCEPT ![MAIN] = [@ EXCEPT !.pc = "idle"]]
    /\ IF prK < Len(dataTypes)
       THEN /\ prK' = prK + 1
            /\ mainpc' = "pr_list"
       ELSE /\ prK' = prK
            /\ mainpc' = "pr_speclist"
    /\ UNCHANGED <<fs, store, clock, hour, pid, mu, prFiles, cancelled, tickerOn,
                   tickPending, workers, tasks, putFails, boots, admitted,
                   deleted, putOK, drainPutFailed, failedSpecimens, prReuploaded, prPasses>>
    /\ UNCHANGED <<call, gs>>

\* the directory GetSpecimenFiles lists
SpecimenRecoveryStage == INCOMING

\* GetSpecimenFiles()
PRListSpecimens ==
    /\ mainpc = "pr_speclist"
    /\ mu = ""
    /\ prFiles' = getFiles(fs, "specimen", SpecimenRecoveryStage)
    /\ mainpc' = "pr_spec"
    /\ UNCHANGED <<fs, store, clock, hour, pid, mu, prK, cancelled, tickerOn, tickPending,
                   workers, cy, tasks, putFails, boots, admitted, deleted,
                   putOK, drainPutFailed, failedSpecimens, prReuploaded, prPasses>>
    /\ UNCHANGED <<call, gs>>

MainTask == {x \in tasks : x.id = 0}

\* the loop over specimenFiles: GetSpecimenInfo, then UploadSpecimen("unknown", uri)
PRNextSpecimen ==
    /\ mainpc = "pr_spec"
    /\ MainTask = {}
    /\ prFiles # << >>
    /\ LET info == GetSpecimenInfo(Head(prFiles))
       IN  tasks' = IF info.ok
                    THEN tasks \cup {[id |-> 0, pc |-> "find", user |-> UNKNOWN,
                                      uri |-> info.uri, target |-> << >>]}
                    ELSE tasks
    /\ prFiles' = Tail(prFiles)
    /\ UNCHANGED <<fs, store, clock, hour, pid, mu, mainpc, prK, cancelled, tickerOn,
                   tickPending, workers, cy, putFails, boots, admitted,
                   deleted, putOK, drainPutFailed, failedSpecimens, prReuploaded, prPasses>>
    /\ UNCHANGED <<call, gs>>

\* ProcessRemaining returns; the cleanup returns; the process exits
PRFinish ==
    /\ mainpc = "pr_spec"
    /\ MainTask = {}
    /\ prFiles = << >>
    /\ mainpc' = "finished"
    /\ prPasses' = prPasses + 1
    /\ UNCHANGED <<fs, store, clock, hour, pid, mu, prK, prFiles, cancelled, tickerOn,
                   tickPending, workers, cy, tasks, putFails, boots, admitted,
                   deleted, putOK, drainPutFailed, failedSpecimens, prReuploaded>>
    /\ UNCHANGED <<call, gs>>

\* ------------------------------------------------------------------ environment
\* the process is killed and started again on the same cache directory
Crash ==
    /\ mainpc # "finished"
    /\ boots < MaxBoot
    /\ boots' = boots + 1
    /\ pid' \in Pids
    /\ Boot
    /\ UNCHANGED <<fs, store, clock, hour, putFails, admitted, deleted, putOK,
                   failedSpecimens>>
    /\ UNCHANGED <<call, gs>>

\* the process is started again after a finished drain
Restart ==
    /\ mainpc = "finished"
    /\ boots < MaxBoot
    /\ boots' = boots + 1
    /\ pid' \in Pids
    /\ Boot
    /\ UNCHANGED <<fs, store, clock, hour, putFails, admitted, deleted, putOK,
                   failedSpecimens>>
    /\ UNCHANGED <<call, gs>>

Next ==
    \/ \E k \in Batched, u \in Users : SaveRecord(k, u)
    \/ \E u \in Users, uri \in URIs : HandleSpecimen(u, uri)
    \/ Start
    \/ \E k \in Batched : WorkerTick(k)
    \/ \E k \in Batched : WorkerExit(k)
    \/ \E e \in Executors : CycleMove(e)
    \/ \E e \in Executors : CycleCreateTemp(e)
    \/ \E e \in Executors : CycleAggregate(e)
    \/ \E e \in Executors : CycleMoveToUploading(e)
    \/ \E e \in Executors : CycleUploadOK(e)
    \/ \E e \in Executors : CycleUploadFail(e)
    \/ \E e \in Executors : CycleRemoveArtifact(e)
    \/ \E e \in Executors : CycleRemoveSource(e)
    \/ \E x \in tasks : SpecimenFind(x)
    \/ \E x \in tasks : SpecimenMove(x)
    \/ \E x \in tasks : SpecimenPutOK(x)
    \/ \E x \in tasks : SpecimenPutFail(x)
    \/ \E x \in tasks : SpecimenRemove(x)
    \/ BeginShutdown
    \/ Cancel
    \/ StopTickers
    \/ Join
    \/ PRListUploading
    \/ PRUploadOK
    \/ PRUploadFail
    \/ PRRemove
    \/ PRCallCycle
    \/ PRCycleReturned
    \/ PRListSpecimens
    \/ PRNextSpecimen
    \/ PRFinish
    \/ Crash
    \/ Restart

Spec == Init /\ [][Next]_vars

\* ================================================================== claims
Admitted(kind) == {r \in admitted : r.kind = kind}
InStage(kind, stage) == {p \in DOMAIN fs : p[1] = kind /\ p[2] = stage}
DrainedClean == mainpc = "finished" /\ ~drainPutFailed

\* the index at which the bytes d first start in s (0 when they do not occur)
FirstPos(s, d) ==
    IF Contains(s, d)
    THEN 1 + CHOOSE i \in 0..(Len(s) - Len(d)) :
                /\ SubSeq(s, i + 1, i + Len(d)) = d
                /\ \A j \in 0..(i - 1) : SubSeq(s, j + 1, j + Len(d)) # d
    ELSE 0

\* C1: once a reconciliation pass has finished with every put succeeding, the
\* payload of every admitted usage/error record is contained in an object
\* held by the object store.
C1_NoLoss ==
    DrainedClean =>
        \A r \in admitted : r.kind \in Batched =>
            \E k \in DOMAIN store : k.bucket = r.kind /\ Contains(Gunzip(store[k].body), r.data)

\* C2: a record file, or an artifact that has reached Uploading, disappears
\* from the stage directories only when a put of a body that contains its
\* content has already returned success.
C2_Gone(p) == \A st \in Stages : <<p[1], st, p[3]>> \notin DOMAIN fs'
C2_InScope(p) == p[2] = UPLOADING \/ \E r \in admitted : r.kind = p[1] /\ r.name = p[3]
C2_Covered(p) ==
    IF p[1] = "specimen" \/ p[2] = UPLOADING
    THEN [kind |-> p[1], body |-> fs[p]] \in putOK
    ELSE \E b \in putOK : b.kind = p[1] /\ Contains(Gunzip(b.body), fs[p] \o <<NL>>)
C2_DeleteOnlyAfterPut ==
    [][\A p \in DOMAIN fs : (C2_Gone(p) /\ C2_InScope(p)) => C2_Covered(p)]_vars
C2_Witness ==
    \E p \in deleted, q \in deleted :
        /\ p[2] = AGGREGATION /\ q[2] = UPLOADING
        /\ \E r \in admitted : r.kind = p[1] /\ r.name = p[3]

\* C3: every admitted record file is in exactly one stage directory of its
\* kind until RemoveFile deletes it: never in two, never in none.
C3_StagesOf(r) == {st \in Stages : <<r.kind, st, r.name>> \in DOMAIN fs}
C3_ExactlyOneStage ==
    \A r \in admitted :
        /\ Cardinality(C3_StagesOf(r)) <= 1
        /\ C3_StagesOf(r) = {} => \E st \in Stages : <<r.kind, st, r.name>> \in deleted
C3_Witness ==
    /\ mu \in Batched
    /\ \E r1 \in admitted, r2 \in admitted :
          /\ r1.kind = mu /\ r2.kind = mu
          /\ C3_StagesOf(r1) = {AGGREGATION}
          /\ C3_StagesOf(r2) = {INCOMING}
          /\ r2.name \in Range(cy[mu].files)

\* C4: when the drain has finished and every put issued during it succeeded,
\* no file remains in any stage directory of any kind.
C4_DrainEmptiesStages == DrainedClean => DOMAIN fs = {}

\* C5: in every aggregate artifact that contains two records of its kind, the
\* record with the lexicographically smaller file name comes first.
C5_Artifacts(kind) ==
    {b.body : b \in {c \in putOK : c.kind = kind}} \cup {fs[p] : p \in InStage(kind, UPLOADING)}
C5_Holds(body, r) == Contains(body, r.data \o <<NL>>)
C5_OrderPreserved ==
    \A kind \in Batched : \A a \in C5_Artifacts(kind) :
        \A r1 \in Admitted(kind), r2 \in Admitted(kind) :
            (LexLess(r1.name, r2.name) /\ C5_Holds(Gunzip(a), r1) /\ C5_Holds(Gunzip(a), r2))
                => FirstPos(Gunzip(a), r1.data) + Len(r1.data) <= FirstPos(Gunzip(a), r2.data)
C5_Witness ==
    \E kind \in Batched : \E b \in putOK : \E r1 \in Admitted(kind), r2 \in Admitted(kind) :
        /\ b.kind = kind /\ r1 # r2
        /\ C5_Holds(Gunzip(b.body), r1) /\ C5_Holds(Gunzip(b.body), r2)

\* C6: when the put of the artifact fails in AggregateAndUpload, the cycle
\* returns at once, the artifact stays in Uploading and every source record
\* that went into it stays in Aggregating.
C6_PutFailed(e) == cy[e].pc = "upload" /\ putFails' = putFails + 1 /\ cy'[e] # cy[e]
C6_FailedPutKeepsFiles ==
    [][\A e \in Executors : C6_PutFailed(e) =>
          /\ cy'[e].pc \in {"idle", "done"}
          /\ Path(KindOf(e), UPLOADING, cy[e].tempFile) \in DOMAIN fs'
          /\ \A n \in Range(cy[e].aggregationFiles) :
                /\ Path(KindOf(e), AGGREGATION, n) \in DOMAIN fs'
                /\ fs'[Path(KindOf(e), AGGREGATION, n)] = fs[Path(KindOf(e), AGGREGATION, n)]
          /\ deleted' = deleted]_vars
C6_Witness ==
    /\ putFails > 0 /\ boots = 0 /\ mainpc = "serving"
    /\ \E k \in Batched :
          /\ cy[k].pc = "idle"
          /\ \A r \in admitted : r.kind = k
          /\ InStage(k, UPLOADING) # {}
          /\ \E r \in admitted : <<k, AGGREGATION, r.name>> \in DOMAIN fs

\* C7: in a reconciliation pass, before the aggregation cycle of a kind is
\* run, every artifact found in the kind's Uploading directory has been put
\* with the bytes of the file itself, and removed if the put succeeded.
C7_ReuploadBeforeCycle ==
    /\ (mainpc = "pr_cycle" /\ cy[MAIN].pc = "idle") =>
          /\ \A p \in InStage(dataTypes[prK], UPLOADING) :
                [path |-> p, body |-> fs[p], ok |-> FALSE] \in prReuploaded
          /\ \A a \in prReuploaded : (a.path[1] = dataTypes[prK] /\ a.ok) => a.path \notin DOMAIN fs
    /\ mainpc = "pr_remove" =>
          LET key == AggregateKey(dataTypes[prK], hour)
          IN  /\ key \in DOMAIN store
              /\ store[key].body = fs[Path(dataTypes[prK], UPLOADING, Head(prFiles))]
C7_Witness ==
    /\ mainpc = "pr_cycle" /\ cy[MAIN].pc = "idle"
    /\ \E a \in prReuploaded : a.path[1] = dataTypes[prK] /\ a.ok /\ a.path \in deleted

\* C8: after a reconciliation pass in which every put succeeded, no source
\* record remains in Aggregating.
C8_AggregatingDrained ==
    DrainedClean =>
        \A r \in admitted : r.kind \in Batched => <<r.kind, AGGREGATION, r.name>> \notin DOMAIN fs

\* C9: the periodic workers of a process run only after that process has
\* completed a reconciliation pass (the pass is run at startup).
C9_ReconcileAtStartup == (\E k \in Batched : workers[k] = "running") => prPasses > 0

\* C10: a specimen left in the specimen Uploading directory by a failed
\* fast-path put is uploaded and removed by the next reconciliation pass
\* whose puts succeed.
C10_SpecimenRetried ==
    DrainedClean =>
        \A n \in failedSpecimens : Path("specimen", UPLOADING, n) \notin DOMAIN fs

\* ------------------------------------------------------------------ C11
\* os.Rename in MoveToAggregation fails: a file of the listing is no longer
\* in Incoming when its turn comes (something else took it after the listing)
IncomingFileGone(e) ==
    /\ cy[e].pc = "move"
    /\ \E i \in 1..Len(cy[e].files) :
          /\ Path(KindOf(e), INCOMING, cy[e].files[i]) \in DOMAIN fs
          /\ fs' = Remove(fs, Path(KindOf(e), INCOMING, cy[e].files[i]))
    /\ UNCHANGED <<store, clock, hour, pid, mu, mainpc, prK, prFiles, cancelled, tickerOn,
                   tickPending, workers, cy, tasks, putFails, boots, admitted, deleted,
                   putOK, drainPutFailed, failedSpecimens, prReuploaded, prPasses, call, gs>>

\* the periodic promotion of a batch, with files that can vanish under it
NextMove ==
    \/ Start
    \/ \E k \in Batched, u \in Users : SaveRecord(k, u)
    \/ \E k \in Batched : WorkerTick(k)
    \/ \E k \in Batched : CycleMove(k)
    \/ \E k \in Batched : CycleCreateTemp(k)
    \/ \E k \in Batched : IncomingFileGone(k)

SpecMove == Init /\ [][NextMove]_vars

\* C11: when the rename of one listed file fails in MoveToAggregation and
\* listed files remain, the batch goes on with the remaining files: one
\* failed move does not abort it.
C11_MoveFails(e) ==
    /\ cy[e].pc = "move" /\ cy'[e] # cy[e]
    /\ Path(KindOf(e), INCOMING, Head(cy[e].files)) \notin DOMAIN fs
    /\ Tail(cy[e].files) # << >>
C11_FailedMoveDoesNotAbort ==
    [][\A e \in Batched : C11_MoveFails(e) =>
          /\ cy'[e].pc = "move"
          /\ cy'[e].files = Tail(cy[e].files)]_vars

\* ------------------------------------------------------------------ C12
\* Manager.RemoveFile: os.Remove and its error, which is non-nil when the
\* path does not exist
RemoveFile(f, p) == [fs |-> Remove(f, p), err |-> p \notin DOMAIN f]

\* one call of RemoveFile, on an existing file or on the handle of the last call
RemoveFileCall(p) ==
    /\ LET r == RemoveFile(fs, p)
       IN  /\ fs' = r.fs
           /\ call' = [NoCall EXCEPT !.op = "remove", !.path = p, !.before = fs, !.err = r.err]
    /\ UNCHANGED <<store, clock, hour, pid, mu, mainpc, prK, prFiles, cancelled, tickerOn,
                   tickPending, workers, cy, tasks, putFails, boots, admitted, deleted,
                   putOK, drainPutFailed, failedSpecimens, prReuploaded, prPasses, gs>>

Handles == DOMAIN fs \cup (IF call.op = "remove" THEN {call.path} ELSE {})

NextRemove ==
    \/ Start
    \/ \E k \in Batched, u \in Users : SaveRecord(k, u)
    \/ \E u \in Users, uri \in URIs : HandleSpecimen(u, uri)
    \/ \E k \in Batched : WorkerTick(k)
    \/ \E k \in Batched : CycleMove(k)
    \/ \E p \in Handles : RemoveFileCall(p)

SpecRemove == Init /\ [][NextRemove]_vars

\* C12: RemoveFile on a file that is already gone (a second call on the same
\* handle) returns no error and leaves the stage directories unchanged.
C12_FinalizeIdempotent ==
    (call.op = "remove" /\ call.path \notin DOMAIN call.before) =>
        (~call.err /\ fs = call.before)

\* ------------------------------------------------------------------ C13, C14, C15
\* admission instants in microseconds: a zero fraction, fractions that end
\* in zeros, full six-digit fractions
TestInstants == {0, 1, 100000, 123456, 1000000, 1500000, 59999990}
\* "a.b", "ab", "a b", "a:b?c"
TestURIs == {<<97, DOT, 98>>, <<97, 98>>, <<97, SPACE, 98>>, <<97, 58, 98, 63, 99>>}
TestPids == {7, 12345}

\* the time.Time of an instant: date and time of day to the second, and the
\* nanoseconds within the second
Instant(t) ==
    [stamp |-> EpochPrefix \o Pad(Digits(t \div MicrosPerSecond), 2),
     nanos |-> (t % MicrosPerSecond) * NanosPerMicro]

\* file names handed to GetSpecimenInfo that no SaveSpecimen made
TestNames ==
    LET stamp == FormatStamp(123456)
    IN  { <<105, 110, 118>>,                                  \* "inv"
          <<97, DOT, 98>>,                                    \* "a.b"
          <<DOT, DOT, DOT>>,                                  \* "..."
          stamp \o <<DOT, 55>>,                               \* two dots
          <<DOT, 49, 50, DOT, 55, DOT, 97, 98>>,              \* ".12.7.ab": no timestamp
          stamp \o <<DOT, 55, DOT>>,                          \* no encoded URI
          stamp \o <<DOT, 55, DOT, 97, 98>> }                 \* well formed

\* generateSpecimenFilename at instant t in process p
GenerateCall(t, p, uri) ==
    /\ call.op = "none"
    /\ call' = [NoCall EXCEPT !.op = "generate", !.t = t, !.pid = p, !.uri = uri,
                              !.name = generateSpecimenFilename(t, p, uri)]
    /\ UNCHANGED <<fs, store, clock, hour, pid, mu, mainpc, prK, prFiles, cancelled, tickerOn,
                   tickPending, workers, cy, tasks, putFails, boots, admitted, deleted,
                   putOK, drainPutFailed, failedSpecimens, prReuploaded, prPasses, gs>>

\* GetSpecimenInfo on the name just generated
ParseGenerated ==
    /\ call.op = "generate"
    /\ call' = [call EXCEPT !.op = "roundtrip", !.info = GetSpecimenInfo(call.name)]
    /\ UNCHANGED <<fs, store, clock, hour, pid, mu, mainpc, prK, prFiles, cancelled, tickerOn,
                   tickPending, workers, cy, tasks, putFails, boots, admitted, deleted,
                   putOK, drainPutFailed, failedSpecimens, prReuploaded, prPasses, gs>>

\* GetSpecimenInfo on an arbitrary file name
ParseCall(name) ==
    /\ call.op = "none"
    /\ call' = [NoCall EXCEPT !.op = "parse", !.name = name, !.info = GetSpecimenInfo(name)]
    /\ UNCHANGED <<fs, store, clock, hour, pid, mu, mainpc, prK, prFiles, cancelled, tickerOn,
                   tickPending, workers, cy, tasks, putFails, boots, admitted, deleted,
                   putOK, drainPutFailed, failedSpecimens, prReuploaded, prPasses, gs>>

NextNames ==
    \/ \E t \in TestInstants, p \in TestPids, uri \in TestURIs : GenerateCall(t, p, uri)
    \/ ParseGenerated
    \/ \E name \in TestNames : ParseCall(name)

SpecNames == Init /\ [][NextNames]_vars

\* C13: GetSpecimenInfo of a generated specimen file name succeeds and
\* returns the URI and the admission instant (to the microsecond), for every
\* URI and every instant.
C13_FilenameRoundTrip ==
    call.op = "roundtrip" =>
        /\ call.info.ok
        /\ call.info.uri = call.uri
        /\ call.info.timestamp = Instant(call.t)

\* C14: GetSpecimenInfo returns an error, and neither URI nor timestamp, for
\* a name with fewer than three dots, with an empty timestamp part or with an
\* empty encoded-URI part.
C14_Dots(name) == Positions(name, DOT)
C14_Malformed(name) ==
    \/ Cardinality(C14_Dots(name)) < 3
    \/ name[1] = DOT
    \/ NthDot(C14_Dots(name), 3) = Len(name)
C14_MalformedRejected ==
    (call.op = "parse" /\ C14_Malformed(call.name)) => call.info = NoInfo
C14_Witness ==
    /\ call.op = "parse"
    /\ Cardinality(C14_Dots(call.name)) >= 3
    /\ call.name[1] # DOT
    /\ NthDot(C14_Dots(call.name), 3) = Len(call.name)
    /\ call.info = NoInfo

\* C15: a generated specimen file name is fourteen digits, a dot, exactly six
\* digits of microseconds, a dot, the pid, a dot and the query-escaped URI.
C15_NameShape ==
    call.op \in {"generate", "roundtrip"} =>
        call.name = Instant(call.t).stamp \o <<DOT>>
                    \o Pad(Digits(call.t % MicrosPerSecond), 6) \o <<DOT>>
                    \o Digits(call.pid) \o <<DOT>> \o QueryEscape(call.uri)

\* ------------------------------------------------------------------ C16
\* C16: the decompressed body of an aggregate artifact is the concatenation,
\* in order, of each source payload, followed by a newline only when the
\* payload does not already end in one.
C16_Line(p) == IF p # << >> /\ p[Len(p)] = NL THEN p ELSE p \o <<NL>>
RECURSIVE C16_Lines(_, _)
C16_Lines(kind, names) ==
    IF names = << >> THEN << >>
    ELSE C16_Line(fs[Path(kind, AGGREGATION, Head(names))]) \o C16_Lines(kind, Tail(names))
C16_NewlineOnlyIfMissing ==
    \A e \in Executors : cy[e].pc = "toupl" =>
        Gunzip(fs[Path(KindOf(e), AGGREGATION, cy[e].tempFile)])
            = C16_Lines(KindOf(e), cy[e].aggregationFiles)

\* ------------------------------------------------------------------ C17
\* Scenario C: two usage records were admitted at instants t1 < t2 and the
\* process was killed before any cycle ran; it has been started again
ScenarioInstants == 1..4
ScenarioRecord(t, p) ==
    [kind |-> "usage", name |-> generateFilename(t, p, <<97>>), data |-> Payload(t)]

InitCrashed ==
    /\ pid \in Pids
    /\ \E t1 \in ScenarioInstants, t2 \in ScenarioInstants :
          /\ t1 < t2
          /\ clock = t2
          /\ admitted = {ScenarioRecord(t1, pid), ScenarioRecord(t2, pid)}
          /\ fs = [q \in {Path("usage", INCOMING, ScenarioRecord(t, pid).name) : t \in {t1, t2}}
                     |-> IF q[3] = ScenarioRecord(t1, pid).name THEN Payload(t1) ELSE Payload(t2)]
    /\ store = EmptyMap
    /\ hour = 0
    /\ mu = ""
    /\ mainpc = "start"
    /\ prK = 1
    /\ prFiles = << >>
    /\ cancelled = FALSE
    /\ tickerOn = [k \in Batched |-> FALSE]
    /\ tickPending = [k \in Batched |-> FALSE]
    /\ workers = [k \in Batched |-> "off"]
    /\ cy = [e \in Executors |-> IdleFrame]
    /\ tasks = {}
    /\ putFails = 0
    /\ boots = 1
    /\ deleted = {}
    /\ putOK = {}
    /\ drainPutFailed = FALSE
    /\ failedSpecimens = {}
    /\ prReuploaded = {}
    /\ prPasses = 0
    /\ call = NoCall
    /\ gs = NewGracefulShutdown

\* the restarted process is shut down before a ticker fires
NextCrashed ==
    \/ Start
    \/ \E k \in Batched : WorkerExit(k)
    \/ CycleMove(MAIN)
    \/ CycleCreateTemp(MAIN)
    \/ CycleAggregate(MAIN)
    \/ CycleMoveToUploading(MAIN)
    \/ CycleUploadOK(MAIN)
    \/ CycleUploadFail(MAIN)
    \/ CycleRemoveArtifact(MAIN)
    \/ CycleRemoveSource(MAIN)
    \/ BeginShutdown
    \/ Cancel
    \/ StopTickers
    \/ Join
    \/ PRListUploading
    \/ PRCallCycle
    \/ PRCycleReturned
    \/ PRListSpecimens
    \/ PRFinish

SpecCrashed == InitCrashed /\ [][NextCrashed]_vars

\* C17: after the reconciliation pass, with no put failed, exactly one usage
\* artifact has been produced and it contains both records.
C17_Artifacts == {b \in putOK : b.kind = "usage"}
C17_OneArtifactWithBoth ==
    DrainedClean =>
        /\ Cardinality(C17_Artifacts) = 1
        /\ Cardinality({k \in DOMAIN store : k.bucket = "usage"}) = 1
        /\ \A b \in C17_Artifacts : \A r \in admitted : C5_Holds(Gunzip(b.body), r)
C17_Witness ==
    /\ DrainedClean
    /\ Cardinality(admitted) = 2
    /\ \E b \in C17_Artifacts : \A r \in admitted : C5_Holds(Gunzip(b.body), r)
    /\ ~\E r \in admitted, st \in Stages : <<r.kind, st, r.name>> \in DOMAIN fs

\* ------------------------------------------------------------------ C18
\* GracefulShutdown.Shutdown, called by each of the Callers, concurrently or
\* one after the other
programVars == <<fs, store, clock, hour, pid, mu, mainpc, prK, prFiles, cancelled, tickerOn,
                 tickPending, workers, cy, tasks, putFails, boots, admitted, deleted,
                 putOK, drainPutFailed, failedSpecimens, prReuploaded, prPasses>>

\* gs.mu.Lock()
GSLock(c) ==
    /\ gs.pc[c] = "call"
    /\ gs.mu = 0
    /\ gs' = [gs EXCEPT !.mu = c, !.pc[c] = "check"]
    /\ UNCHANGED <<programVars, call>>

\* if gs.done
GSDone_Never(g) == FALSE

GSDone(g) == g.done

\* if gs.done { gs.mu.Unlock(); return }; gs.done = true; gs.mu.Unlock()
GSCheck(c) ==
    /\ gs.pc[c] = "check"
    /\ gs.mu = c
    /\ gs' = IF GSDone(gs)
             THEN [gs EXCEPT !.mu = 0, !.pc[c] = "returned", !.skipped = @ \cup {c}]
             ELSE [gs EXCEPT !.mu = 0, !.pc[c] = "cleanup", !.done = TRUE]
    /\ UNCHANGED <<programVars, call>>

\* cleanup()
GSCleanup(c) ==
    /\ gs.pc[c] = "cleanup"
    /\ gs' = [gs EXCEPT !.cleanups = @ + 1, !.pc[c] = "close"]
    /\ UNCHANGED <<programVars, call>>

\* close(gs.doneCh)
GSClose(c) ==
    /\ gs.pc[c] = "close"
    /\ gs' = [gs EXCEPT !.closed = @ + 1, !.pc[c] = "returned"]
    /\ UNCHANGED <<programVars, call>>

NextShutdown ==
    \/ \E c \in Callers : GSLock(c)
    \/ \E c \in Callers : GSCheck(c)
    \/ \E c \in Callers : GSCleanup(c)
    \/ \E c \in Callers : GSClose(c)

SpecShutdown == Init /\ [][NextShutdown]_vars

\* C18: however many goroutines call Shutdown, cleanup runs at most once;
\* every call but the first returns without running it.
C18_Returned == {c \in Callers : gs.pc[c] = "returned"}
C18_CleanupAtMostOnce ==
    /\ gs.cleanups <= 1
    /\ gs.closed <= 1
    /\ gs.skipped # {} => gs.done
    /\ C18_Returned = Callers => (gs.cleanups = 1 /\ Cardinality(gs.skipped) = NumCallers - 1)
C18_Witness ==
    /\ C18_Returned = Callers
    /\ gs.cleanups = 1
    /\ Cardinality(gs.skipped) >= 2

\* ------------------------------------------------------------------ C19, C20
\* C19: in the drain the context is cancelled first, both workers are joined
\* next, then the reconciliation pass runs, once, and the drain is finished
\* only after it has returned; the pass never runs beside a periodic worker.
C19_InPass == mainpc \in {"pr_list", "pr_upload", "pr_remove", "pr_cycle", "pr_speclist", "pr_spec"}
C19_DrainOrder ==
    /\ mainpc \in {"sd_wait", "sd_join"} => cancelled
    /\ (C19_InPass \/ mainpc = "finished") =>
          /\ cancelled
          /\ \A k \in Batched : workers[k] = "exited" /\ cy[k].pc = "idle"
    /\ C19_InPass => prPasses = 0
    /\ cy[MAIN].pc # "idle" => mainpc = "pr_cycle"
    /\ mainpc = "finished" => (prPasses = 1 /\ cy[MAIN].pc = "idle" /\ prFiles = << >>)
C19_Witness ==
    /\ mainpc = "finished"
    /\ prPasses = 1
    /\ \A k \in Batched : workers[k] = "exited"
    /\ putOK # {}

\* C20: a periodic worker exits only between cycles: cancellation raised
\* during a cycle does not touch the cycle, and the worker stays until the
\* cycle has returned.
C20_ExitOnlyBetweenCycles ==
    [][/\ (~cancelled /\ cancelled') => cy' = cy
       /\ \A k \in Batched :
             /\ (workers[k] = "running" /\ workers'[k] = "exited") =>
                   (cancelled /\ cy[k].pc = "idle" /\ cy'[k].pc = "idle")
             /\ (cy[k].pc # "idle" /\ boots' = boots) => workers'[k] = "running"]_vars
C20_Witness ==
    /\ cancelled
    /\ \E k \in Batched : workers[k] = "running" /\ cy[k].pc = "upload"

C26_Past(e) == cy[e].pc \in {"temp", "aggregate", "toupl", "upload", "rmart", "rmsrc"}

\* C26: the records a successful cycle deletes are exactly the records whose
\* payloads are in the artifact it has put; a record that reaches Incoming
\* after the cycle's listing is not in the artifact, is not deleted by the
\* cycle, and stays in Incoming as it is.
C26_BatchIsolated ==
    [][\A e \in Executors :
         LET k == KindOf(e)
             L == cy[e].aggregationFiles
         IN  /\ (cy[e].pc = "upload" /\ cy'[e].pc = "rmart") =>
                   \A r \in Admitted(k) :
                       Contains(Gunzip(fs[Path(k, UPLOADING, cy[e].tempFile)]), r.data \o <<NL>>)
                           <=> r.name \in Range(L)
             /\ (cy[e].pc = "rmsrc" /\ cy'[e] # cy[e] /\ L # << >>) =>
                   /\ DOMAIN fs \ DOMAIN fs' \subseteq {Path(k, AGGREGATION, Head(L))}
                   /\ \A p \in DOMAIN fs \ DOMAIN fs' :
                         \E b \in putOK : b.kind = k /\ Contains(Gunzip(b.body), fs[p] \o <<NL>>)
             /\ (cy[e].pc = "move" /\ cy'[e] # cy[e]) =>
                   \A p \in InStage(k, INCOMING) :
                       p[3] \notin Range(cy[e].files) => (p \in DOMAIN fs' /\ fs'[p] = fs[p])
             /\ (C26_Past(e) /\ cy'[e] # cy[e]) =>
                   \A p \in InStage(k, INCOMING) : p \in DOMAIN fs' /\ fs'[p] = fs[p]]_vars
C26_Witness ==
    \E k \in Batched :
        /\ cy[k].pc = "rmart"
        /\ \E r \in Admitted(k) : Path(k, INCOMING, r.name) \in DOMAIN fs
        /\ \E r \in Admitted(k) : r.name \in Range(cy[k].aggregationFiles)

\* ------------------------------------------------------------------ C28
\* the files a cycle has promoted: its batch and its artifact
C28_Owned(e) ==
    IF C26_Past(e) /\ cy[e].pc # "temp"
    THEN {Path(KindOf(e), AGGREGATION, n) : n \in Range(cy[e].aggregationFiles)}
         \cup {Path(KindOf(e), st, cy[e].tempFile) : st \in {AGGREGATION, UPLOADING}}
    ELSE {}

C28_Open(e) == cy[e].pc \notin {"idle", "done"}

\* C28: the worker of a kind and the reconciliation pass never have a cycle
\* of the same kind open together, and no step but the cycle's own changes
\* a file the cycle has promoted.
C28_OneCyclePerKind ==
    [][/\ \A k \in Batched : ~(C28_Open(k)' /\ C28_Open(MAIN)' /\ KindOf(MAIN)' = k)
       /\ C28_Open(MAIN)' => \A k \in Batched : ~C28_Open(k)'
       /\ \A e \in Executors : \A p \in C28_Owned(e) \cap DOMAIN fs :
             (p \notin DOMAIN fs' \/ fs'[p] # fs[p]) => cy'[e] # cy[e]]_vars
C28_Witness ==
    /\ mainpc = "pr_cycle"
    /\ cy[MAIN].pc = "aggregate"
    /\ cy[MAIN].aggregationFiles # << >>
    /\ \A k \in Batched : cy[k].pc = "idle"
    /\ putOK # {}

\* ------------------------------------------------------------------ C29
\* C29: once cancellation has been raised no worker begins a cycle.
C29_NoCycleAfterCancel ==
    [][\A k \in Batched : (cancelled /\ cy[k].pc = "idle") => cy'[k].pc = "idle"]_vars

\* ------------------------------------------------------------------ C30
\* what a call of AggregateAndUpload by e leaves alone when it is a no-op
C30_NoOp(e) ==
    /\ fs' = fs
    /\ store' = store
    /\ putOK' = putOK
    /\ deleted' = deleted
    /\ clock' = clock
    /\ putFails' = putFails
    /\ cy' = [cy EXCEPT ![e] = Returned(e)]

\* C30: a cycle that lists an empty Incoming returns at once: no file is
\* moved, created or removed, nothing is put, and every stage is as before.
C30_EmptyCycleNoOp ==
    [][/\ \A k \in Batched : (WorkerTick(k) /\ InStage(k, INCOMING) = {}) => C30_NoOp(k)
       /\ (PRCallCycle /\ InStage(dataTypes[prK], INCOMING) = {}) => C30_NoOp(MAIN)]_vars
C30_Witness ==
    /\ mainpc = "pr_cycle"
    /\ cy[MAIN].pc = "done"
    /\ putFails = 0
    /\ InStage(dataTypes[prK], INCOMING) = {}
    /\ \E r \in Admitted(dataTypes[prK]) : Path(r.kind, AGGREGATION, r.name) \in DOMAIN fs

\* ------------------------------------------------------------------ C22
\* a staged record file goes bad: from now on it cannot be read
FileGoesBad(p) ==
    /\ p \in DOMAIN fs
    /\ p[1] \in Batched
    /\ p[2] = AGGREGATION
    /\ \E r \in admitted : r.kind = p[1] /\ r.name = p[3]
    /\ call.op = "none"
    /\ fs' = [fs EXCEPT ![p] = Unreadable]
    /\ call' = [NoCall EXCEPT !.op = "bad", !.t = clock, !.path = p]
    /\ UNCHANGED <<store, clock, hour, pid, mu, mainpc, prK, prFiles, cancelled, tickerOn,
                   tickPending, workers, cy, tasks, putFails, boots, admitted, deleted,
                   putOK, drainPutFailed, failedSpecimens, prReuploaded, prPasses>>
    /\ UNCHANGED gs

\* the periodic workers with every put succeeding and one file going bad
NextBadFile ==
    \/ Start
    \/ \E k \in Batched, u \in Users : SaveRecord(k, u)
    \/ \E k \in Batched : WorkerTick(k)
    \/ \E k \in Batched : CycleMove(k)
    \/ \E k \in Batched : CycleCreateTemp(k)
    \/ \E k \in Batched : CycleAggregate(k)
    \/ \E k \in Batched : CycleMoveToUploading(k)
    \/ \E k \in Batched : CycleUploadOK(k)
    \/ \E k \in Batched : CycleRemoveArtifact(k)
    \/ \E k \in Batched : CycleRemoveSource(k)
    \/ \E p \in DOMAIN fs : FileGoesBad(p)

SpecBadFile == Init /\ [][NextBadFile]_vars

C22_Delivered(r) ==
    \E a \in putOK : a.kind = r.kind /\ Contains(Gunzip(a.body), r.data \o <<NL>>)

\* the record was admitted after the file went bad
C22_After(r) ==
    \E t \in (call.t + 1)..clock, u \in Users : r.name = generateFilename(t, pid, u)

\* C22: one unreadable staged file does not keep the records admitted after
\* it from being delivered: the cycle that staged it aborts, and once a
\* later cycle has taken the later records out of Incoming and returned,
\* they have been put.
C22_BadFileDoesNotBlock ==
    \A k \in Batched :
        (cy[k].pc = "idle" /\ InStage(k, INCOMING) = {}) =>
            \A r \in Admitted(k) : (call.op = "bad" => C22_After(r)) => C22_Delivered(r)

\* ------------------------------------------------------------------ requests
\* the USER_TOKEN header of a request: absent (empty) or a user name
Tokens == {<< >>} \cup Users

\* the uri query parameter of a request: absent (empty) or a URI
QueryURIs(kind) == IF kind = "specimen" THEN {<< >>} \cup URIs ELSE {<< >>}

\* the request bodies
Bodies == {Payload(1), Payload(2)}

\* time.Now() in generateFilename / generateSpecimenFilename: the reading of
\* the last call again (two calls within the resolution of the clock or of
\* the stamp), or a later one
NowMicros == {clock, clock + 1} \ {0}

\* AuthMiddleware: the request goes on to the handler
AuthMiddleware_AcceptAll(token) == TRUE

AuthMiddleware(token) == token # << >>

\* handleSpecimen: the uri parameter is missing
URIMissing_Never(uri) == FALSE

URIMissing(uri) == uri = << >>

\* the name SaveUsage / SaveError / SaveSpecimen gives the file
SaveName(kind, t, user, uri) ==
    IF kind = "specimen" THEN generateSpecimenFilename(t, pid, uri)
    ELSE generateFilename(t, pid, user)

CallRecord == [kind |-> call.kind, name |-> call.name, data |-> call.data]

\* a PUT to /usage, /error or /specimen arrives: AuthMiddleware, the handler's
\* checks, the file name, and saveFile up to os.Create under the lock
Request(kind, token, uri, d, t) ==
    /\ mainpc = "serving"
    /\ call.op \in {"none", "done", "rejected"}
    /\ LET req  == [NoCall EXCEPT !.kind = kind, !.user = token, !.uri = uri]
           name == SaveName(kind, t, token, uri)
       IN  IF ~AuthMiddleware(token)
           THEN /\ call' = [req EXCEPT !.op = "rejected", !.status = StatusUnauthorized]
                /\ UNCHANGED <<fs, clock, mu>>
           ELSE IF kind = "specimen" /\ URIMissing(uri)
           THEN /\ call' = [req EXCEPT !.op = "rejected", !.status = StatusBadRequest]
                /\ UNCHANGED <<fs, clock, mu>>
           ELSE /\ mu = ""
                /\ Cardinality(admitted \cup {[kind |-> kind, name |-> name, data |-> d]})
                      <= MaxAdmit
                /\ clock' = t
                /\ mu' = "save"
                /\ fs' = WriteFile(fs, Path(kind, INCOMING, name), << >>)
                /\ call' = [req EXCEPT !.op = "saving", !.t = t, !.name = name, !.data = d,
                                       !.path = Path(kind, INCOMING, name), !.before = fs]
    /\ UNCHANGED <<store, hour, pid, mainpc, prK, prFiles, cancelled, tickerOn,
                   tickPending, workers, cy, tasks, putFails, boots, admitted, deleted,
                   putOK, drainPutFailed, failedSpecimens, prReuploaded, prPasses>>
    /\ UNCHANGED gs

\* saveFile: file.Write, then the deferred Close and Unlock
SaveWrite ==
    /\ call.op = "saving"
    /\ fs' = WriteFile(fs, call.path, call.data)
    /\ mu' = ""
    /\ admitted' = admitted \cup {CallRecord}
    /\ call' = [call EXCEPT !.op = "saved"]
    /\ UNCHANGED <<store, clock, hour, pid, mainpc, prK, prFiles, cancelled, tickerOn,
                   tickPending, workers, cy, tasks, putFails, boots, deleted,
                   putOK, drainPutFailed, failedSpecimens, prReuploaded, prPasses>>
    /\ UNCHANGED gs

\* the handler after the save: go s.uploadSpecimen(user, uri) for a specimen,
\* then the 204
Respond ==
    /\ call.op = "saved"
    /\ tasks' = IF call.kind = "specimen"
                THEN tasks \cup {[id |-> call.t, pc |-> "find", user |-> call.user,
                                  uri |-> call.uri, target |-> << >>]}
                ELSE tasks
    /\ call' = [NoCall EXCEPT !.op = "done", !.status = StatusNoContent]
    /\ UNCHANGED <<fs, store, clock, hour, pid, mu, mainpc, prK, prFiles, cancelled,
                   tickerOn, tickPending, workers, cy, putFails, boots, admitted, deleted,
                   putOK, drainPutFailed, failedSpecimens, prReuploaded, prPasses>>
    /\ UNCHANGED gs

\* the kind whose periodic worker runs beside the requests
AdmitWorkers == {"usage"}

\* the server and a periodic worker, every put succeeding
NextAdmit ==
    \/ Start
    \/ \E kind \in Kinds, token \in Tokens, d \in Bodies, t \in NowMicros :
          \E uri \in QueryURIs(kind) : Request(kind, token, uri, d, t)
    \/ SaveWrite
    \/ Respond
    \/ \E k \in AdmitWorkers : WorkerTick(k)
    \/ \E k \in AdmitWorkers : CycleMove(k)
    \/ \E k \in AdmitWorkers : CycleCreateTemp(k)
    \/ \E k \in AdmitWorkers : CycleAggregate(k)
    \/ \E k \in AdmitWorkers : CycleMoveToUploading(k)
    \/ \E k \in AdmitWorkers : CycleUploadOK(k)
    \/ \E k \in AdmitWorkers : CycleRemoveArtifact(k)
    \/ \E k \in AdmitWorkers : CycleRemoveSource(k)

SpecAdmit == Init /\ [][NextAdmit]_vars

\* ------------------------------------------------------------------ C23
\* C23: when a save returns, the payload can be read back from a file the
\* listing of Incoming shows, and Incoming of the kind holds exactly one file
\* more than when the save began.
C23_AdmitAddsOneFile ==
    [][(call.op = "saving" /\ call'.op = "saved") =>
          LET p == call.path
              Incoming(f) == {q \in DOMAIN f : q[1] = p[1] /\ q[2] = INCOMING}
          IN  /\ p \in DOMAIN fs'
              /\ fs'[p] = call.data
              /\ p[3] \in Range(getFiles(fs', p[1], INCOMING))
              /\ p \notin DOMAIN call.before
              /\ Incoming(fs') = Incoming(call.before) \cup {p}]_vars

\* ------------------------------------------------------------------ C24
\* a request has just been taken in
C24_Arrived == call' # call /\ call'.op \in {"rejected", "saving"}

\* C24: a request without USER_TOKEN is answered 401 and changes no file, no
\* lock, no task and no admitted record; a request with a token is saved and
\* uploaded under the token as its user.
C24_TokenRequired ==
    [][/\ (C24_Arrived /\ call'.user = << >>) =>
             /\ call'.op = "rejected"
             /\ call'.status = StatusUnauthorized
             /\ fs' = fs /\ mu' = mu /\ tasks' = tasks /\ admitted' = admitted
       /\ (C24_Arrived /\ call'.user # << >> /\ call'.op = "saving" /\ call'.kind \in Batched) =>
             call'.name = generateFilename(call'.t, pid, call'.user)
       /\ \A x \in tasks' \ tasks : x.user = call.user /\ x.user # << >>
       /\ \A r \in admitted' \ admitted : call.user # << >>]_vars
C24_Witness ==
    /\ call.op = "rejected"
    /\ call.status = StatusUnauthorized
    /\ call.user = << >>
    /\ admitted # {}

\* ------------------------------------------------------------------ C25
\* C25: a specimen request without uri is answered 400 and changes no file
\* and no task; a task is started, and 204 answered, only after the record
\* has been written to specimen Incoming.
C25_UriRequired ==
    [][/\ (C24_Arrived /\ call'.user # << >> /\ call'.kind = "specimen" /\ call'.uri = << >>) =>
             /\ call'.op = "rejected"
             /\ call'.status = StatusBadRequest
             /\ fs' = fs /\ mu' = mu /\ tasks' = tasks /\ admitted' = admitted
       /\ (tasks' # tasks \/ (call'.status = StatusNoContent /\ call.status # StatusNoContent)) =>
             /\ call.op = "saved"
             /\ CallRecord \in admitted
             /\ call.kind = "specimen" =>
                   /\ call.uri # << >>
                   /\ call.path = Path("specimen", INCOMING, call.name)
                   /\ call.path \in DOMAIN fs
                   /\ fs[call.path] = call.data]_vars
C25_Witness ==
    /\ call.op = "rejected"
    /\ call.status = StatusBadRequest
    /\ call.kind = "specimen"
    /\ call.user # << >>
    /\ tasks # {}
    /\ InStage("specimen", INCOMING) # {}

\* ------------------------------------------------------------------ C27
\* the bytes of up to MaxAdmit admitted payloads, each followed by a newline
C27_Lines(s) ==
    IF Len(s) = 0 THEN << >>
    ELSE IF Len(s) = 1 THEN s[1].data \o <<NL>>
    ELSE IF Len(s) = 2 THEN s[1].data \o <<NL>> \o s[2].data \o <<NL>>
    ELSE s[1].data \o <<NL>> \o s[2].data \o <<NL>> \o s[3].data \o <<NL>>

C27_Whole == {C27_Lines(s) : s \in UNION {[1..n -> admitted] : n \in 0..3}}

C27_IsTemp(name) ==
    Len(name) >= Len(AggregatePrefix) /\ SubSeq(name, 1, Len(AggregatePrefix)) = AggregatePrefix

\* C27: while a save holds the lock its file stays in Incoming, listed and
\* moved by nobody: every record file in Aggregating has the whole payload
\* of an admitted record, and every artifact put is made of whole payloads.
C27_NoPartialPayload ==
    /\ call.op = "saving" =>
          /\ mu = "save"
          /\ call.path \in DOMAIN fs
          /\ fs[call.path] = << >>
    /\ \A p \in DOMAIN fs :
          (p[1] \in Batched /\ p[2] = AGGREGATION /\ ~C27_IsTemp(p[3])) =>
              \E r \in admitted : r.kind = p[1] /\ r.name = p[3] /\ r.data = fs[p]
    /\ \A a \in putOK : Gunzip(a.body) \in C27_Whole
C27_Witness ==
    /\ call.op = "saving"
    /\ \E k \in Batched : k = call.kind /\ cy[k].pc = "move"

\* ------------------------------------------------------------------ C31
\* the objects a step writes
Written == {key \in DOMAIN store' : key \notin DOMAIN store \/ store'[key] # store[key]}

\* C31: a put of an aggregate of kind k writes the one key made of the kind,
\* the hour read at the put and the hostname, whatever the artifact holds;
\* it replaces what an earlier put of the same hour left there and touches
\* no other object, so a kind has at most one object per hour.
C31_KeyPerHour ==
    [][\A e \in Executors :
         (cy[e].pc = "upload" /\ cy'[e].pc = "rmart") =>
             LET k == KindOf(e)
             IN  /\ \A key \in Written :
                       /\ key.bucket = k
                       /\ key.period = Digits(hour')
                       /\ key.clean = Hostname
                       /\ store'[key].body = fs[Path(k, UPLOADING, cy[e].tempFile)]
                 /\ \A key \in DOMAIN store : key \in DOMAIN store'
                 /\ Cardinality({key \in DOMAIN store' : key.bucket = k}) <= hour' + 1]_vars
C31_Witness ==
    \E a \in putOK, b \in putOK :
        /\ a.kind = "usage" /\ b.kind = "usage" /\ a.body # b.body
        /\ hour = 0
        /\ Cardinality({key \in DOMAIN store : key.bucket = "usage"}) = 1
        /\ \E key \in DOMAIN store : store[key].body = b.body

C34_PlaceholderOwner ==
    [][\A x \in tasks :
         (x.id = 0 /\ x.pc = "put" /\ x \notin tasks' /\ putOK' # putOK) =>
             /\ Written # {}
             /\ \A key \in Written :
                   /\ key.bucket = "specimen"
                   /\ key.owner = <<117, 110, 107, 110, 111, 119, 110>>
                   /\ key.owner \notin Users
                   /\ store'[key].uri = GetSpecimenInfo(x.target).uri
                   /\ store'[key].uri \in URIs]_vars
C34_Witness ==
    /\ mainpc = "finished"
    /\ \E key \in DOMAIN store :
          key.bucket = "specimen" /\ key.owner = <<117, 110, 107, 110, 111, 119, 110>>
                                  /\ store[key].uri \in URIs

\* ------------------------------------------------------------------ C36
\* C36: no cycle takes an aggregate_*.gz file left in Aggregating as one of
\* the source files of its artifact.
C36_NoArtifactAsSource ==
    \A e \in Executors : \A n \in Range(cy[e].aggregationFiles) : ~C27_IsTemp(n)

\* ------------------------------------------------------------------ C40
\* C40: the Done channel is closed once, by the call that ran the cleanup and
\* after the cleanup has returned; no other call closes it.
C40_DoneClosedOnce ==
    [][gs'.closed # gs.closed =>
          /\ gs.closed = 0
          /\ gs'.closed = 1
          /\ gs.cleanups = 1
          /\ \A c \in Callers : gs.pc[c] # "cleanup"
          /\ \E c \in Callers : gs.pc[c] = "close" /\ gs'.pc[c] = "returned" /\ c \notin gs.skipped]_vars
C40_Witness ==
    /\ gs.closed = 1
    /\ gs.cleanups = 1
    /\ \E c \in Callers : gs.pc[c] = "check"
    /\ gs.skipped # {}

\* ------------------------------------------------------------------ C35
\* C35: an admit never changes the file of a record admitted before it: at
\* the create and at the write of a save, every file holding an admitted
\* record keeps its bytes.
C35_AdmitsNeverOverwrite ==
    [][(call' # call /\ call'.op \in {"saving", "saved"}) =>
          \A r \in admitted :
              LET p == Path(r.kind, INCOMING, r.name)
              IN  (p \in DOMAIN fs /\ fs[p] = r.data) => (p \in DOMAIN fs' /\ fs'[p] = r.data)]_vars

\* ------------------------------------------------------------------ C38
\* C38: with every put succeeding, once the fast-path tasks of a serving
\* process have all ended no specimen is left in Incoming.
C38_EachSpecimenTaken ==
    (mainpc = "serving" /\ tasks = {} /\ putFails = 0 /\ boots = 0) =>
        InStage("specimen", INCOMING) = {}

\* ------------------------------------------------------------------ C39
\* saveFile: os.Create fails; the handler answers 500
SaveCreateFail(kind, token, uri, t) ==
    /\ mainpc = "serving"
    /\ call.op \in {"none", "done", "rejected"}
    /\ AuthMiddleware(token)
    /\ ~(kind = "specimen" /\ URIMissing(uri))
    /\ mu = ""
    /\ clock' = t
    /\ call' = [NoCall EXCEPT !.op = "failed", !.status = StatusInternalServerError,
                              !.kind = kind, !.user = token, !.uri = uri, !.t = t,
                              !.name = SaveName(kind, t, token, uri),
                              !.path = Path(kind, INCOMING, SaveName(kind, t, token, uri)),
                              !.before = fs]
    /\ UNCHANGED <<fs, store, hour, pid, mu, mainpc, prK, prFiles, cancelled, tickerOn,
                   tickPending, workers, cy, tasks, putFails, boots, admitted, deleted,
                   putOK, drainPutFailed, failedSpecimens, prReuploaded, prPasses>>
    /\ UNCHANGED gs

\* saveFile: file.Write fails after n bytes; Close and Unlock run, the
\* handler answers 500
SaveWriteFail(n) ==
    /\ call.op = "saving"
    /\ n < Len(call.data)
    /\ fs' = WriteFile(fs, call.path, SubSeq(call.data, 1, n))
    /\ mu' = ""
    /\ call' = [call EXCEPT !.op = "failed", !.status = StatusInternalServerError]
    /\ UNCHANGED <<store, clock, hour, pid, mainpc, prK, prFiles, cancelled, tickerOn,
                   tickPending, workers, cy, tasks, putFails, boots, admitted, deleted,
                   putOK, drainPutFailed, failedSpecimens, prReuploaded, prPasses>>
    /\ UNCHANGED gs

\* the server and a periodic worker, up to the first save that fails
NextAdmitFail ==
    \/ NextAdmit
    \/ \E kind \in Kinds, token \in Users, t \in NowMicros :
          \E uri \in URIs : SaveCreateFail(kind, token, uri, t)
    \/ \E n \in 0..1 : SaveWriteFail(n)

SpecAdmitFail == Init /\ [][NextAdmitFail]_vars

\* C39: after a save that returned an error, no file, empty or partial, has
\* been added under the name of the failed record.
C39_FailedAdmitLeavesNothing ==
    (call.op = "failed" /\ call.path \notin DOMAIN call.before) =>
        \A st \in Stages : Path(call.kind, st, call.name) \notin DOMAIN fs

\* ------------------------------------------------------------------ C37
\* two users who put specimens, and the bytes each of them sends
FastUsers == {<<97>>, <<98>>}

OwnerBody(user) == <<200 + user[1]>>

\* the server and the fast-path tasks, every put succeeding and every clock
\* reading later than the last
NextFast ==
    \/ Start
    \/ \E token \in FastUsers, uri \in URIs :
          Request("specimen", token, uri, OwnerBody(token), clock + 1)
    \/ SaveWrite
    \/ Respond
    \/ \E x \in tasks : SpecimenFind(x)
    \/ \E x \in tasks : SpecimenMove(x)
    \/ \E x \in tasks : SpecimenPutOK(x)
    \/ \E x \in tasks : SpecimenRemove(x)

SpecFast == Init /\ [][NextFast]_vars

\* C37: the owner in the key of every specimen object is the user who sent
\* the bytes the object holds.
C37_OwnerOfBytes ==
    \A key \in DOMAIN store :
        key.bucket = "specimen" => store[key].body = OwnerBody(key.owner)

\* ------------------------------------------------------------------ C33
\* names in specimen Incoming that GetSpecimenInfo cannot decode: fewer than
\* three dots (what SaveSpecimen writes for a dot-free uri at a whole second),
\* a stamp that does not parse, an escape that does not decode, an empty uri
MalformedNames ==
    { <<50, 48, 50, 51, 49, 50, 51, 49, 50, 51, 53, 57, 53, 57, 46, 55, 46, 97, 98>>,       \* "20231231235959.7.ab"
      <<50, 48, 50, 51, 120, 46, 48, 48, 48, 48, 48, 49, 46, 55, 46, 97, 46, 98>>,       \* "2023x.000001.7.a.b"
      <<50, 48, 50, 52, 48, 49, 48, 49, 48, 48, 48, 48, 48, 48, 46, 48, 48, 48, 48, 48, 49, 46, 55, 46, 37, 122, 122>>,       \* "20240101000000.000001.7.%zz"
      <<50, 48, 57, 57, 49, 50, 51, 49, 50, 51, 53, 57, 53, 57, 46, 48, 48, 48, 48, 48, 49, 46, 55, 46>> }      \* "20991231235959.000001.7."

MalformedBytes == <<250>>

\* the process starts on a cache directory that holds one such file
InitMalformed ==
    /\ pid \in Pids
    /\ \E n \in MalformedNames :
          fs = [q \in {Path("specimen", INCOMING, n)} |-> MalformedBytes]
    /\ clock = 0
    /\ admitted = {}
    /\ store = EmptyMap
    /\ hour = 0
    /\ mu = ""
    /\ mainpc = "start"
    /\ prK = 1
    /\ prFiles = << >>
    /\ cancelled = FALSE
    /\ tickerOn = [k \in Batched |-> FALSE]
    /\ tickPending = [k \in Batched |-> FALSE]
    /\ workers = [k \in Batched |-> "off"]
    /\ cy = [e \in Executors |-> IdleFrame]
    /\ tasks = {}
    /\ putFails = 0
    /\ boots = 0
    /\ deleted = {}
    /\ putOK = {}
    /\ drainPutFailed = FALSE
    /\ failedSpecimens = {}
    /\ prReuploaded = {}
    /\ prPasses = 0
    /\ call = NoCall
    /\ gs = NewGracefulShutdown

\* specimens are admitted and uploaded, then the process is shut down
NextMalformed ==
    \/ Start
    \/ \E user \in Users, uri \in URIs : HandleSpecimen(user, uri)
    \/ \E x \in tasks : SpecimenFind(x)
    \/ \E x \in tasks : SpecimenMove(x)
    \/ \E x \in tasks : SpecimenPutOK(x)
    \/ \E x \in tasks : SpecimenPutFail(x)
    \/ \E x \in tasks : SpecimenRemove(x)
    \/ \E k \in Batched : WorkerExit(k)
    \/ BeginShutdown
    \/ Cancel
    \/ StopTickers
    \/ Join
    \/ PRListUploading
    \/ PRCallCycle
    \/ PRCycleReturned
    \/ PRListSpecimens
    \/ PRNextSpecimen
    \/ PRFinish

SpecMalformed == InitMalformed /\ [][NextMalformed]_vars

C33_Malformed == {p \in DOMAIN fs : p[3] \in MalformedNames}

\* C33: the undecodable file stays in specimen Incoming with its bytes, no
\* task ever targets it, nothing is put or deleted for it; and once the
\* process has finished with no put failed and no task cut short, it is the
\* only file left in Incoming and every admitted specimen has been put.
C33_MalformedSkipped ==
    /\ \E n \in MalformedNames : C33_Malformed = {Path("specimen", INCOMING, n)}
    /\ \A p \in C33_Malformed : fs[p] = MalformedBytes
    /\ \A x \in tasks : x.target \notin MalformedNames
    /\ \A p \in deleted : p[3] \notin MalformedNames
    /\ \A b \in putOK : b.body # MalformedBytes
    /\ (mainpc = "finished" /\ putFails = 0 /\ tasks = {}) =>
          /\ InStage("specimen", INCOMING) = C33_Malformed
          /\ \A r \in admitted : [kind |-> "specimen", body |-> r.data] \in putOK

\* the process has finished, both passes have gone past the undecodable file,
\* which sorts first, and two specimens were put
C33_Witness ==
    /\ mainpc = "finished"
    /\ putFails = 0
    /\ tasks = {}
    /\ Cardinality(admitted) = 2
    /\ Cardinality(putOK) = 2
    /\ \E key \in DOMAIN store : key.owner = UNKNOWN
    /\ \E p \in C33_Malformed : getFiles(fs, "specimen", INCOMING) = <<p[3]>>
    /\ \E p \in C33_Malformed : p[3][4] = 51

====
